---------------------------- MODULE Spec2Model ----------------------------
(***************************************************************************)
(* Authorization and dispatch middleware of agentbox (a2a/skill):          *)
(* IdentityResolver, RateLimiter, PolicyEngine, OpenClawClient and         *)
(* SkillRouter.dispatch.                                                   *)
(*                                                                         *)
(* Strings that the code inspects character by character (path, url,       *)
(* content) are sequences of one-character strings; strings that the code  *)
(* only compares as a whole (user ids, roles, actions, language) are TLA+  *)
(* strings.  A parameter bag is a function from the keys present to their  *)
(* values.                                                                 *)
(***************************************************************************)
EXTENDS Integers, Sequences, FiniteSets, TLC

(***************************************************************************)
(* Bounds of the model.                                                    *)
(***************************************************************************)
MaxCalls == 2
MaxClock == 61
MaxWindow == 3
MaxBuilds == 2
MaxOffset == 3
MaxRequests == 2
MaxInvocations == 2

(***************************************************************************)
(* Program constants.                                                      *)
(***************************************************************************)
WINDOW_SECONDS == 60
DEFAULT_RATE_LIMIT == 10
DEFAULT_ROLE == "readonly"

(***************************************************************************)
(* Small helpers for dicts and strings.                                    *)
(***************************************************************************)
EmptyBag == <<>>

Get(d, k, default) == IF k \in DOMAIN d THEN d[k] ELSE default

Merge(f, g) == [x \in (DOMAIN f) \cup (DOMAIN g) |->
                   IF x \in DOMAIN f THEN f[x] ELSE g[x]]

Str(chars) == [isStr |-> TRUE, chars |-> chars]
NonStr(items) == [isStr |-> FALSE, chars |-> items]

\* needle in haystack, on Python strings
IsSubstring(needle, hay) ==
    \E i \in 1..(Len(hay) + 1) :
        /\ i + Len(needle) - 1 <= Len(hay)
        /\ \A j \in 1..Len(needle) : hay[i + j - 1] = needle[j]

InSeq(x, s) == \E i \in 1..Len(s) : s[i] = x

\* bytes one code point takes in UTF-8
Utf8Width(ch) == IF ch = "e_acute" THEN 2 ELSE 1

RECURSIVE EncodedLen(_)
EncodedLen(chars) ==
    IF chars = <<>> THEN 0
    ELSE Utf8Width(Head(chars)) + EncodedLen(Tail(chars))

(***************************************************************************)
(* Configuration the process is started with: the identity map and the    *)
(* role table (roles.yaml).  The role "ghost" is assigned by the identity  *)
(* map but has no entry in the role table.                                 *)
(***************************************************************************)
EtcPath == <<"/", "e", "t", "c">>
EnvPath == <<".", "e", "n", "v">>
LocalPat == <<"1", "2", "7", ".">>

RoleMap == [U_OP |-> "operator", U_ADMIN |-> "admin", U_GHOST |-> "ghost",
            U_NOBODY |-> "nobody"]

OperatorRunCode == [max_timeout_seconds |-> 3,
                    allowed_languages |-> <<"python", "js">>,
                    max_size_bytes |-> 2,
                    blocked_paths |-> <<EtcPath, EnvPath>>,
                    blocked_patterns |-> <<LocalPat>>]

RolesConfig ==
    [operator |-> [allowed_actions |-> <<"search_web", "run_code", "write_file">>,
                   denied_actions |-> <<"write_file">>,
                   parameter_constraints |-> [run_code |-> OperatorRunCode,
                                              write_file |-> OperatorRunCode],
                   rate_limit |-> 2],
     admin    |-> [allowed_actions |-> <<"*", "send_message">>,
                   denied_actions |-> <<"send_message", "fetch_url">>,
                   parameter_constraints |->
                       [run_code |-> [max_timeout_seconds |-> 3],
                        search_web |-> EmptyBag]],
     readonly |-> [allowed_actions |-> <<"get_status">>,
                   parameter_constraints |-> [run_code |-> OperatorRunCode],
                   rate_limit |-> 1],
     nobody   |-> [denied_actions |-> <<>>, rate_limit |-> 0]]

KnownRoles == DOMAIN RolesConfig

(***************************************************************************)
(* PolicyEngine                                                            *)
(***************************************************************************)
Reason(kind, action, role, detail) ==
    [kind |-> kind, action |-> action, role |-> role, detail |-> detail]

NoReason == Reason("", "", "", <<>>)

PolicyResult(allowed, reason, sanitized, role) ==
    [allowed |-> allowed, reason |-> reason,
     sanitized_params |-> sanitized, role |-> role]

\* mutant of ClampTimeout: the timeout is passed through
ClampTimeout_NoClamp(ac, params) == params

\* the clamp of timeout_seconds (soft constraint)
ClampTimeout(ac, params) ==
    IF /\ "max_timeout_seconds" \in DOMAIN ac
       /\ "timeout_seconds" \in DOMAIN params
       /\ params["timeout_seconds"] > ac["max_timeout_seconds"]
    THEN [params EXCEPT !["timeout_seconds"] = ac["max_timeout_seconds"]]
    ELSE params

\* allowed_languages: a non-empty language outside the whitelist
LanguageViolation(ac, sanitized) ==
    /\ "allowed_languages" \in DOMAIN ac
    /\ LET lang == Get(sanitized, "language", "")
       IN  lang # "" /\ ~InSeq(lang, ac["allowed_languages"])

\* mutant of SizeViolation: the size is counted in characters
SizeViolation_CharCount(ac, sanitized) ==
    /\ "max_size_bytes" \in DOMAIN ac
    /\ LET content == Get(sanitized, "content", Str(<<>>))
       IN  content.isStr /\ Len(content.chars) > ac["max_size_bytes"]

\* max_size_bytes: a str content whose UTF-8 encoding is too long
SizeViolation(ac, sanitized) ==
    /\ "max_size_bytes" \in DOMAIN ac
    /\ LET content == Get(sanitized, "content", Str(<<>>))
       IN  content.isStr /\ EncodedLen(content.chars) > ac["max_size_bytes"]

\* blocked_paths: a blocked substring in the path
PathViolation(ac, sanitized) ==
    /\ "blocked_paths" \in DOMAIN ac
    /\ LET path == Get(sanitized, "path", <<>>)
       IN  \E i \in 1..Len(ac["blocked_paths"]) :
               IsSubstring(ac["blocked_paths"][i], path)

\* blocked_patterns: a blocked substring in the url
UrlViolation(ac, sanitized) ==
    /\ "blocked_patterns" \in DOMAIN ac
    /\ LET url == Get(sanitized, "url", <<>>)
       IN  \E i \in 1..Len(ac["blocked_patterns"]) :
               IsSubstring(ac["blocked_patterns"][i], url)

\* mutant of ApplyParameterConstraints: the content size is looked at
\* before the language
ApplyParameterConstraints_SizeFirst(constraints, action, params) ==
    LET ac == Get(constraints, action, EmptyBag)
        sanitized == ClampTimeout(ac, params)
    IN  IF DOMAIN ac = {} THEN [ok |-> TRUE, sanitized |-> params, error |-> ""]
        ELSE IF SizeViolation(ac, sanitized)
             THEN [ok |-> FALSE, sanitized |-> EmptyBag, error |-> "content_too_large"]
        ELSE IF LanguageViolation(ac, sanitized)
             THEN [ok |-> FALSE, sanitized |-> EmptyBag, error |-> "language_not_permitted"]
        ELSE IF PathViolation(ac, sanitized)
             THEN [ok |-> FALSE, sanitized |-> EmptyBag, error |-> "path_not_permitted"]
        ELSE IF UrlViolation(ac, sanitized)
             THEN [ok |-> FALSE, sanitized |-> EmptyBag, error |-> "url_blocked_pattern"]
        ELSE [ok |-> TRUE, sanitized |-> sanitized, error |-> ""]

\* mutant of ApplyParameterConstraints: the sanitized copy keeps only the
\* parameters a constraint looks at
ApplyParameterConstraints_OnlyChecked(constraints, action, params) ==
    LET ac == Get(constraints, action, EmptyBag)
        clamped == ClampTimeout(ac, params)
        checked == {"timeout_seconds", "language", "content", "path", "url"}
        sanitized == [k \in (DOMAIN clamped) \cap checked |-> clamped[k]]
    IN  IF DOMAIN ac = {} THEN [ok |-> TRUE, sanitized |-> params, error |-> ""]
        ELSE IF LanguageViolation(ac, sanitized)
             THEN [ok |-> FALSE, sanitized |-> EmptyBag, error |-> "language_not_permitted"]
        ELSE IF SizeViolation(ac, sanitized)
             THEN [ok |-> FALSE, sanitized |-> EmptyBag, error |-> "content_too_large"]
        ELSE IF PathViolation(ac, sanitized)
             THEN [ok |-> FALSE, sanitized |-> EmptyBag, error |-> "path_not_permitted"]
        ELSE IF UrlViolation(ac, sanitized)
             THEN [ok |-> FALSE, sanitized |-> EmptyBag, error |-> "url_blocked_pattern"]
        ELSE [ok |-> TRUE, sanitized |-> sanitized, error |-> ""]

\* _apply_parameter_constraints: the sanitized copy, or the ValueError
ApplyParameterConstraints(constraints, action, params) ==
    LET ac == Get(constraints, action, EmptyBag)
        sanitized == ClampTimeout(ac, params)
    IN  IF DOMAIN ac = {} THEN [ok |-> TRUE, sanitized |-> params, error |-> ""]
        ELSE IF LanguageViolation(ac, sanitized)
             THEN [ok |-> FALSE, sanitized |-> EmptyBag, error |-> "language_not_permitted"]
        ELSE IF SizeViolation(ac, sanitized)
             THEN [ok |-> FALSE, sanitized |-> EmptyBag, error |-> "content_too_large"]
        ELSE IF PathViolation(ac, sanitized)
             THEN [ok |-> FALSE, sanitized |-> EmptyBag, error |-> "path_not_permitted"]
        ELSE IF UrlViolation(ac, sanitized)
             THEN [ok |-> FALSE, sanitized |-> EmptyBag, error |-> "url_blocked_pattern"]
        ELSE [ok |-> TRUE, sanitized |-> sanitized, error |-> ""]

\* mutant of JoinOrNone: the last allowed action is left out
JoinOrNone_Truncated(actions) ==
    IF actions = <<>> THEN <<"none">> ELSE SubSeq(actions, 1, Len(actions) - 1)

\* ', '.join(allowed_actions) or 'none'
JoinOrNone(actions) == IF actions = <<>> THEN <<"none">> ELSE actions

\* mutant of ExplicitlyDenied: an allow rule overrides the denial
ExplicitlyDenied_UnlessAllowed(role_cfg, action) ==
    /\ InSeq(action, Get(role_cfg, "denied_actions", <<>>))
    /\ ~InSeq("*", Get(role_cfg, "allowed_actions", <<>>))
    /\ ~InSeq(action, Get(role_cfg, "allowed_actions", <<>>))

\* action in role_cfg.get("denied_actions", [])
ExplicitlyDenied(role_cfg, action) ==
    InSeq(action, Get(role_cfg, "denied_actions", <<>>))

\* PolicyEngine.check once the role configuration is found
PolicyForConfig(role_cfg, role_name, action, params) ==
    LET allowed_actions == Get(role_cfg, "allowed_actions", <<>>)
        constraints == Get(role_cfg, "parameter_constraints", EmptyBag)
        res == ApplyParameterConstraints(constraints, action, params)
    IN  IF ExplicitlyDenied(role_cfg, action)
        THEN PolicyResult(FALSE, Reason("explicitly_denied", action, role_name, <<>>),
                          EmptyBag, role_name)
        ELSE IF ~InSeq("*", allowed_actions) /\ ~InSeq(action, allowed_actions)
        THEN PolicyResult(FALSE,
                          Reason("not_permitted", action, role_name,
                                 JoinOrNone(allowed_actions)),
                          EmptyBag, role_name)
        ELSE IF ~res.ok
        THEN PolicyResult(FALSE, Reason(res.error, action, "", <<>>),
                          EmptyBag, role_name)
        ELSE PolicyResult(TRUE, Reason("permitted", action, role_name, <<>>),
                          res.sanitized, role_name)

\* mutant of PolicyCheck: a role without configuration gets the default role's
PolicyCheck_FailOpen(role_name, action, params) ==
    PolicyForConfig(Get(RolesConfig, role_name, RolesConfig[DEFAULT_ROLE]),
                    role_name, action, params)

\* mutant of PolicyCheck: a role without configuration is denied without
\* a reason
PolicyCheck_NoReason(role_name, action, params) ==
    IF role_name \notin DOMAIN RolesConfig
    THEN PolicyResult(FALSE, NoReason, EmptyBag, role_name)
    ELSE PolicyForConfig(RolesConfig[role_name], role_name, action, params)

\* PolicyEngine.check(identity, action, params)
PolicyCheck(role_name, action, params) ==
    IF role_name \notin DOMAIN RolesConfig
    THEN PolicyResult(FALSE, Reason("unknown_role", "", role_name, <<>>),
                      EmptyBag, role_name)
    ELSE PolicyForConfig(RolesConfig[role_name], role_name, action, params)

(***************************************************************************)
(* State of the process.                                                   *)
(***************************************************************************)
VARIABLES
    now,          \* time.monotonic()
    windows,      \* RateLimiter._windows: user id -> timestamps
    calls,        \* the dispatch calls: position, locals and result of each
    role_map,     \* IdentityResolver._role_map: user id -> role name
    default_role, \* IdentityResolver._default_role
    locks,        \* RateLimiter._locks: user id -> holder of the lock
    last,         \* the last direct call of a RateLimiter method
    router_instance,  \* middleware._router_instance
    built,            \* the number of SkillRouter objects built so far
    handed,           \* what get_skill_router gave since the last reset
    loaded,           \* the identity sources read by the last build
    position,         \* the Kafka consumer: next offset to fetch, by partition
    committed,        \* the committed offset of the group, by partition
    events_processed, \* AgentBoxConsumer._events_processed
    running,          \* AgentBoxConsumer.running
    stage,            \* where the consumer run is
    handled,          \* the handle_event calls of the run
    failed,           \* the messages of the run whose handle_event raised
    exit_path,        \* how the run left _consume_loop
    shutdown,         \* the steps the finally block of start() has done
    tasks,            \* server._tasks: task id -> the asyncio task registered
    invocations,      \* the asyncio tasks created for _invoke_openclaw
    requests,         \* the POST / requests: position, locals and response
    polled            \* the last final answer a client of tasks/get took, by task id

\* the router cache of the middleware
middleware == <<router_instance, built, handed, loaded>>

\* the Kafka consumer of the marketing agent
kafka ==
    <<position, committed, events_processed, running, stage, handled, failed,
      exit_path, shutdown>>

\* the A2A server
server == <<tasks, invocations, requests, polled>>

\* the state outside the dispatch pipeline and its clock
elsewhere == <<default_role, locks, last, middleware, kafka, server>>

(***************************************************************************)
(* IdentityResolver                                                        *)
(***************************************************************************)
\* a user id that is no string: a non-empty JSON list, which dict.get
\* cannot hash
UnhashableId == "[unhashable]"

ResolveRaises(slack_user_id) == slack_user_id = UnhashableId

\* mutant of Resolve: a user that is not in the map gets no role
Resolve_NoDefault(slack_user_id) ==
    [slack_user_id |-> slack_user_id,
     role |-> Get(role_map, slack_user_id, "unknown")]

\* IdentityResolver.resolve: the Identity (slack_user_id, role)
Resolve(slack_user_id) ==
    IF slack_user_id = ""
    THEN [slack_user_id |-> "", role |-> default_role]
    ELSE [slack_user_id |-> slack_user_id,
          role |-> Get(role_map, slack_user_id, default_role)]

\* the sources of the identity map: the SLACK_ROLE_MAP variable (unset or
\* blank, no JSON, or a JSON object) and identity_map.yaml (missing, not
\* loadable, or a document with an identity_map section)
Unset == [kind |-> "unset", map |-> EmptyBag]

Garbled == [kind |-> "garbled", map |-> EmptyBag]

JsonObject(map) == [kind |-> "json", map |-> map]

MissingFile == [kind |-> "missing", map |-> EmptyBag]

UnparsableFile == [kind |-> "unparsable", map |-> EmptyBag]

YamlFile(map) == [kind |-> "yaml", map |-> map]

\* dict.pop(key, ...): the map without the key
Without(map, key) == [k \in (DOMAIN map) \ {key} |-> map[k]]

\* mutant of FromEnv: the "default" key of the environment map is popped
\* as it is for the file
FromEnv_DefaultPopped(environ, identity_file, default) ==
    IF environ.kind = "json"
    THEN [role_map |-> Without(environ.map, "default"),
          default_role |-> Get(environ.map, "default", default)]
    ELSE IF identity_file.kind = "yaml"
    THEN [role_map |-> Without(identity_file.map, "default"),
          default_role |-> Get(identity_file.map, "default", default)]
    ELSE [role_map |-> EmptyBag, default_role |-> default]

\* IdentityResolver.from_env: the arguments of the constructor
FromEnv(environ, identity_file, default) ==
    IF environ.kind = "json"
    THEN [role_map |-> environ.map, default_role |-> default]
    ELSE IF identity_file.kind = "yaml"
    THEN [role_map |-> Without(identity_file.map, "default"),
          default_role |-> Get(identity_file.map, "default", default)]
    ELSE [role_map |-> EmptyBag, default_role |-> default]

(***************************************************************************)
(* RateLimiter                                                             *)
(***************************************************************************)
\* role_cfg.get("rate_limit", 10) of roles_config.get(role, {})
RateLimitOf(role) ==
    Get(Get(RolesConfig, role, EmptyBag), "rate_limit", DEFAULT_RATE_LIMIT)

\* _get_window: the deque of the user, created empty on first use
GetWindow(ws, user_id) == Get(ws, user_id, <<>>)

\* mutants of Expired: the boundary timestamp pruned, pruning one unit late
Expired_Inclusive(ts, t) == ts <= t - WINDOW_SECONDS

Expired_Late(ts, t) == ts < t - WINDOW_SECONDS - 1

Expired(ts, t) == ts < t - WINDOW_SECONDS

\* mutant of Prune: a single pop instead of the loop
Prune_Once(window, t) ==
    IF window # <<>> /\ Expired(Head(window), t) THEN Tail(window) ELSE window

\* _prune: pops from the left while the oldest timestamp is expired
RECURSIVE Prune(_, _)
Prune(window, t) ==
    IF window # <<>> /\ Expired(Head(window), t)
    THEN Prune(Tail(window), t)
    ELSE window

WithWindow(ws, user_id, window) ==
    [u \in (DOMAIN ws) \cup {user_id} |-> IF u = user_id THEN window ELSE ws[u]]

\* mutant of RateCheck: the check also appends the timestamp
RateCheck_Appends(ws, user_id, role, t) ==
    LET window == Prune(GetWindow(ws, user_id), t)
    IN  [ok |-> ~(Len(window) >= RateLimitOf(role)), window |-> Append(window, t)]

\* mutant of RateCheck: a window that holds exactly the limit still passes
RateCheck_AtMost(ws, user_id, role, t) ==
    LET window == Prune(GetWindow(ws, user_id), t)
    IN  [ok |-> ~(Len(window) > RateLimitOf(role)), window |-> window]

\* RateLimiter.check: the pruned window and the verdict
RateCheck(ws, user_id, role, t) ==
    LET window == Prune(GetWindow(ws, user_id), t)
    IN  [ok |-> ~(Len(window) >= RateLimitOf(role)), window |-> window]

\* RateLimiter.record
RateRecord(ws, user_id, t) ==
    WithWindow(ws, user_id, Append(GetWindow(ws, user_id), t))

\* mutant of CurrentCount: the count is taken without pruning
CurrentCount_Unpruned(ws, user_id, t) ==
    [count |-> Len(GetWindow(ws, user_id)), window |-> GetWindow(ws, user_id)]

\* RateLimiter.current_count: the pruned window and its length
CurrentCount(ws, user_id, t) ==
    LET window == Prune(GetWindow(ws, user_id), t)
    IN  [count |-> Len(window), window |-> window]

\* mutant of ResetWindows: the window is left as it is
ResetWindows_Keeps(ws, user_id) == ws

\* mutant of ResetWindows: every window is cleared
ResetWindows_All(ws, user_id) == [u \in DOMAIN ws |-> <<>>]

\* RateLimiter.reset: the window of the user is cleared if there is one
ResetWindows(ws, user_id) ==
    IF user_id \in DOMAIN ws THEN [ws EXCEPT ![user_id] = <<>>] ELSE ws

(***************************************************************************)
(* OpenClawClient                                                          *)
(*                                                                         *)
(* What the gateway does with a request: it cannot be reached, it does     *)
(* not answer within the timeout, or it answers with a status and a JSON   *)
(* object.  Field values are strings, "" being the empty string.           *)
(***************************************************************************)
Unreachable == [kind |-> "connection_failure", status |-> 0, data |-> EmptyBag]

TimedOut == [kind |-> "timeout", status |-> 0, data |-> EmptyBag]

Answer(status, data) == [kind |-> "response", status |-> status, data |-> data]

NoGateway == [kind |-> "", status |-> 0, data |-> EmptyBag]

\* what send_message ends with: a returned value or a raised exception
Returns(of, text, data) ==
    [kind |-> "return", exc |-> "", detail |-> "", status |-> 0,
     value |-> [of |-> of, text |-> text, data |-> data]]

Raises(exc, detail, status) ==
    [kind |-> "raise", exc |-> exc, detail |-> detail, status |-> status,
     value |-> [of |-> "", text |-> "", data |-> EmptyBag]]

NotSent ==
    [kind |-> "", exc |-> "", detail |-> "", status |-> 0,
     value |-> [of |-> "", text |-> "", data |-> EmptyBag]]

\* mutant of FirstOf: the first field that is present, whatever its value
FirstOf_Present(data) ==
    IF "reply" \in DOMAIN data THEN Returns("reply", data["reply"], EmptyBag)
    ELSE IF "text" \in DOMAIN data THEN Returns("text", data["text"], EmptyBag)
    ELSE IF "message" \in DOMAIN data
         THEN Returns("message", data["message"], EmptyBag)
    ELSE Returns("str(data)", "", data)

\* data.get("reply") or data.get("text") or data.get("message") or str(data)
FirstOf(data) ==
    IF Get(data, "reply", "") # "" THEN Returns("reply", data["reply"], EmptyBag)
    ELSE IF Get(data, "text", "") # "" THEN Returns("text", data["text"], EmptyBag)
    ELSE IF Get(data, "message", "") # ""
         THEN Returns("message", data["message"], EmptyBag)
    ELSE Returns("str(data)", "", data)

\* an exception that is no ClientConnectionError reaches the second except
\* clause, which looks up aiohttp.ClientTimeoutError: where the library
\* has no such name (defined = FALSE) the lookup raises AttributeError;
\* where it has, a timeout is wrapped and a RuntimeError passes through
SecondExceptClause(exc, detail, status, defined) ==
    IF ~defined THEN Raises("AttributeError", "ClientTimeoutError", 0)
    ELSE IF exc = "TimeoutError" THEN Raises("RuntimeError", "timed out", 0)
    ELSE Raises(exc, detail, status)

\* OpenClawClient.send_message
SendMessage(gateway, defined) ==
    CASE gateway.kind = "connection_failure" ->
             Raises("RuntimeError", "Cannot reach", 0)
      [] gateway.kind = "timeout" ->
             SecondExceptClause("TimeoutError", "", 0, defined)
      [] OTHER ->
             IF gateway.status >= 400
             THEN SecondExceptClause("RuntimeError", "returned HTTP",
                                     gateway.status, defined)
             ELSE FirstOf(gateway.data)

(***************************************************************************)
(* SkillRouter                                                             *)
(***************************************************************************)
Templates ==
    [search_web   |-> {"query"},
     read_file    |-> {"path"},
     write_file   |-> {"path", "content"},
     run_code     |-> {"language", "code"},
     run_analysis |-> {"description"},
     get_status   |-> {},
     send_message |-> {"target", "content"},
     fetch_url    |-> {"url"}]

\* mutant of BuildOpenclawMessage: a known action always takes its
\* template, filled with the fields that are there
BuildOpenclawMessage_NoFallback(action, params) ==
    IF action \in DOMAIN Templates
    THEN [kind |-> "template", action |-> action,
          fields |-> [k \in Templates[action] \cap DOMAIN params |-> params[k]]]
    ELSE [kind |-> "generic", action |-> action, fields |-> params]

\* _build_openclaw_message: the template filled from params, else the
\* generic rendering of every parameter
BuildOpenclawMessage(action, params) ==
    IF action \in DOMAIN Templates /\ Templates[action] \subseteq DOMAIN params
    THEN [kind |-> "template", action |-> action,
          fields |-> [k \in Templates[action] |-> params[k]]]
    ELSE [kind |-> "generic", action |-> action, fields |-> params]

NoMessage == [kind |-> "", action |-> "", fields |-> EmptyBag]

SkillResponse(allowed, response, role, reason, action, slack_user_id) ==
    [allowed |-> allowed, response |-> response, role |-> role,
     reason |-> reason, action |-> action, slack_user_id |-> slack_user_id]

Response(kind, limit, reason) == [kind |-> kind, limit |-> limit, reason |-> reason]

NoResponse == SkillResponse(FALSE, Response("", 0, NoReason), "", NoReason, "", "")

RATE_LIMIT_EXCEEDED == Reason("Rate limit exceeded", "", "", <<>>)
EXECUTION_ERROR == Reason("OpenClaw execution error", "", "", <<>>)

CallIds == 1..MaxCalls

\* A dispatch call: its position (pc), its arguments and locals, its
\* SkillResponse, and what it has done so far: recs counts its appends to
\* the rate window, gw its send_message calls, overlapped tells that
\* another call of the same user was in flight when it started, seen and
\* checkedAt are the window and the clock its rate check looked at,
\* gateway and sent are what the gateway did and what send_message made
\* of it.
IdleCall ==
    [pc |-> "idle", user |-> "", action |-> "", params |-> EmptyBag,
     role |-> "", policy |-> PolicyResult(FALSE, NoReason, EmptyBag, ""),
     result |-> NoResponse, msg |-> NoMessage,
     recs |-> 0, gw |-> 0, overlapped |-> FALSE,
     seen |-> <<>>, checkedAt |-> 0,
     gateway |-> NoGateway, sent |-> NotSent]

InFlight(call) == call.pc \notin {"idle", "done", "raised"}

vars == <<now, windows, calls, role_map, elsewhere>>

\* no RateLimiter method has been called directly
NoOperation ==
    [op |-> "", user |-> "", role |-> "", ok |-> FALSE, count |-> 0,
     before |-> <<>>, at |-> 0, started |-> {}]

\* IdentityResolver(role_map, default_role), RateLimiter()
\* _router_instance = None
NoRouter == 0

NoSource == [kind |-> "", map |-> EmptyBag]

Partitions == {"leads-0", "commands-0"}

\* the asyncio task a request has not created or looked up
NoTask == 0

NoReply == [kind |-> "none", http |-> 0, code |-> 0, state |-> "", text |-> <<>>]

\* a request slot no POST / is using
\* no request
NoPost ==
    [auth |-> "", body |-> "", envelope |-> "", jsonrpc |-> "", method |-> "",
     parts |-> <<>>, id |-> "", stream |-> FALSE]

\* a request slot no POST / is using: q is the request, task_id and task are
\* the locals of a2a_root, reply what it returned, events what its stream
\* sent, started and wrote count the asyncio tasks the request created and
\* its writes to _tasks, timed_out tells that its wait_for ran out
IdleRequest ==
    [pc |-> "idle", q |-> NoPost, task_id |-> "", task |-> NoTask,
     reply |-> NoReply, events |-> <<>>, started |-> 0, wrote |-> 0,
     timed_out |-> FALSE]

RequestIds == 1..MaxRequests

\* server.py is imported: _tasks = {}, no asyncio task exists
InitServer ==
    /\ tasks = EmptyBag
    /\ invocations = <<>>
    /\ requests = [r \in RequestIds |-> IdleRequest]
    /\ polled = EmptyBag

\* the module is imported: nothing is cached, no consumer is running
InitMiddleware ==
    /\ router_instance = NoRouter
    /\ built = 0
    /\ handed = {}
    /\ loaded = [environ |-> NoSource, identity_file |-> NoSource]

InitKafka ==
    /\ position = [p \in Partitions |-> 0]
    /\ committed = [p \in Partitions |-> 0]
    /\ events_processed = 0
    /\ running = TRUE
    /\ stage = "loop"
    /\ handled = 0
    /\ failed = {}
    /\ exit_path = ""
    /\ shutdown = <<>>

InitElsewhere ==
    /\ default_role = DEFAULT_ROLE
    /\ locks = EmptyBag
    /\ last = NoOperation
    /\ InitMiddleware
    /\ InitKafka
    /\ InitServer

Init == /\ now = 0
        /\ windows = EmptyBag
        /\ calls = [c \in CallIds |-> IdleCall]
        /\ role_map = RoleMap
        /\ InitElsewhere

\* the monotonic clock advances
TickSteps == {60, 61}

Tick(d) == /\ now + d <= MaxClock
           /\ now' = now + d
           /\ UNCHANGED <<windows, calls, role_map, elsewhere>>

\* mutant of StepResolve: a failed resolution goes on as role "unknown"
StepResolve_IgnoresFailure(c, user, action, params) ==
    /\ calls[c].pc = "idle"
    /\ \A b \in CallIds : b < c => calls[b].pc # "idle"
    /\ calls' = [calls EXCEPT ![c] =
           [calls[c] EXCEPT !.user = user, !.action = action,
                            !.params = params, !.pc = "ratecheck",
                            !.overlapped = \E b \in CallIds :
                                /\ InFlight(calls[b])
                                /\ calls[b].user = user,
                            !.role = IF ResolveRaises(user) THEN "unknown"
                                     ELSE Resolve(user).role]]
    /\ UNCHANGED <<now, windows, role_map, elsewhere>>

\* dispatch is called and resolves the identity (step 1)
StepResolve(c, user, action, params) ==
    /\ calls[c].pc = "idle"
    /\ \A b \in CallIds : b < c => calls[b].pc # "idle"
    /\ LET started == [calls[c] EXCEPT !.user = user, !.action = action,
                                       !.params = params,
                                       !.overlapped = \E b \in CallIds :
                                           /\ InFlight(calls[b])
                                           /\ calls[b].user = user]
       IN  IF ResolveRaises(user)
           THEN calls' = [calls EXCEPT ![c] =
                    [started EXCEPT !.pc = "done",
                        !.result = SkillResponse(FALSE,
                            Response("identity_failure", 0, NoReason), "unknown",
                            Reason("unhashable type", "", "", <<>>), action, user)]]
           ELSE calls' = [calls EXCEPT ![c] =
                    [started EXCEPT !.pc = "ratecheck",
                                    !.role = Resolve(user).role]]
    /\ UNCHANGED <<now, windows, role_map, elsewhere>>

\* dispatch is called with a resolver whose resolve raises an exception
\* of the given message ("" for an exception without one): the except
\* clause of step 1 returns the identity-failure denial
StepResolveFault(c, user, action, params, message) ==
    /\ calls[c].pc = "idle"
    /\ \A b \in CallIds : b < c => calls[b].pc # "idle"
    /\ calls' = [calls EXCEPT ![c] =
           [calls[c] EXCEPT !.user = user, !.action = action,
                            !.params = params, !.pc = "done",
                            !.result = SkillResponse(FALSE,
                                Response("identity_failure", 0, NoReason),
                                "unknown", Reason(message, "", "", <<>>),
                                action, user)]]
    /\ UNCHANGED <<now, windows, role_map, elsewhere>>

\* mutant of CitedLimit: no default for a role without rate_limit
CitedLimit_NoDefault(role) ==
    Get(Get(RolesConfig, role, EmptyBag), "rate_limit", 0)

\* the limit the rate-limit denial cites: role_cfg.get("rate_limit", 10)
CitedLimit(role) ==
    Get(Get(RolesConfig, role, EmptyBag), "rate_limit", DEFAULT_RATE_LIMIT)

\* the rate limit check (step 2): prunes the window of the user
StepRateCheck(c) ==
    /\ calls[c].pc = "ratecheck"
    /\ LET call == calls[c]
           chk == RateCheck(windows, call.user, call.role, now)
           looked == [call EXCEPT !.seen = GetWindow(windows, call.user),
                                  !.checkedAt = now]
       IN  /\ windows' = WithWindow(windows, call.user, chk.window)
           /\ IF chk.ok
              THEN calls' = [calls EXCEPT ![c] = [looked EXCEPT !.pc = "policy"]]
              ELSE calls' = [calls EXCEPT ![c] =
                       [looked EXCEPT !.pc = "done",
                           !.result = SkillResponse(FALSE,
                               Response("rate_limit", CitedLimit(call.role), NoReason),
                               call.role, RATE_LIMIT_EXCEEDED, call.action, call.user)]]
    /\ UNCHANGED <<now, role_map, elsewhere>>

\* mutant of StepPolicy: the constraints are applied to params itself
StepPolicy_InPlace(c) ==
    /\ calls[c].pc = "policy"
    /\ LET call == calls[c]
           policy_result == PolicyCheck(call.role, call.action, call.params)
           checked == [call EXCEPT !.policy = policy_result,
                                   !.params = IF policy_result.allowed
                                              THEN policy_result.sanitized_params
                                              ELSE @]
       IN  IF policy_result.allowed
           THEN calls' = [calls EXCEPT ![c] = [checked EXCEPT !.pc = "record"]]
           ELSE calls' = [calls EXCEPT ![c] =
                    [checked EXCEPT !.pc = "done",
                        !.result = SkillResponse(FALSE,
                            Response("policy_denied", 0, policy_result.reason),
                            call.role, policy_result.reason, call.action, call.user)]]
    /\ UNCHANGED <<now, windows, role_map, elsewhere>>

\* the policy check (step 3)
StepPolicy(c) ==
    /\ calls[c].pc = "policy"
    /\ LET call == calls[c]
           policy_result == PolicyCheck(call.role, call.action, call.params)
           checked == [call EXCEPT !.policy = policy_result]
       IN  IF policy_result.allowed
           THEN calls' = [calls EXCEPT ![c] = [checked EXCEPT !.pc = "record"]]
           ELSE calls' = [calls EXCEPT ![c] =
                    [checked EXCEPT !.pc = "done",
                        !.result = SkillResponse(FALSE,
                            Response("policy_denied", 0, policy_result.reason),
                            call.role, policy_result.reason, call.action, call.user)]]
    /\ UNCHANGED <<now, windows, role_map, elsewhere>>

\* mutant of StepRecord: the message is built from the raw parameters
StepRecord_RawParams(c) ==
    /\ calls[c].pc = "record"
    /\ LET call == calls[c]
       IN  /\ windows' = RateRecord(windows, call.user, now)
           /\ calls' = [calls EXCEPT ![c] =
                  [call EXCEPT !.pc = "send", !.recs = @ + 1,
                      !.msg = BuildOpenclawMessage(call.action, call.params)]]
    /\ UNCHANGED <<now, role_map, elsewhere>>

\* the request is recorded and the message built (step 4, up to the await)
StepRecord(c) ==
    /\ calls[c].pc = "record"
    /\ LET call == calls[c]
       IN  /\ windows' = RateRecord(windows, call.user, now)
           /\ calls' = [calls EXCEPT ![c] =
                  [call EXCEPT !.pc = "send", !.recs = @ + 1,
                      !.msg = BuildOpenclawMessage(call.action,
                                                   call.policy.sanitized_params)]]
    /\ UNCHANGED <<now, role_map, elsewhere>>

\* mutant of StepSend: a failed gateway call gives the quota back
StepSend_RefundsOnFailure(c, gateway, defined) ==
    /\ calls[c].pc = "send"
    /\ LET sent == SendMessage(gateway, defined)
           call == [calls[c] EXCEPT !.gw = @ + 1, !.gateway = gateway,
                                    !.sent = sent]
           window == GetWindow(windows, call.user)
       IN  /\ calls' = [calls EXCEPT ![c] =
                  CASE sent.kind = "return" ->
                         [call EXCEPT !.pc = "done",
                             !.result = SkillResponse(TRUE, Response("reply", 0, NoReason),
                                 call.role, call.policy.reason, call.action, call.user)]
                    [] sent.kind = "raise" /\ sent.exc = "RuntimeError" ->
                         [call EXCEPT !.pc = "done",
                             !.result = SkillResponse(TRUE,
                                 Response("gateway_error", 0, NoReason),
                                 call.role, EXECUTION_ERROR, call.action, call.user)]
                    [] OTHER -> [call EXCEPT !.pc = "raised"]]
           /\ windows' = IF sent.kind = "return" \/ window = <<>>
                         THEN windows
                         ELSE WithWindow(windows, call.user,
                                         SubSeq(window, 1, Len(window) - 1))
    /\ UNCHANGED <<now, role_map, elsewhere>>

\* the gateway call and the return of dispatch (steps 4 and 5): a
\* RuntimeError of send_message is caught, any other exception leaves
\* dispatch
StepSend(c, gateway, defined) ==
    /\ calls[c].pc = "send"
    /\ LET sent == SendMessage(gateway, defined)
           call == [calls[c] EXCEPT !.gw = @ + 1, !.gateway = gateway,
                                    !.sent = sent]
       IN  calls' = [calls EXCEPT ![c] =
               CASE sent.kind = "return" ->
                      [call EXCEPT !.pc = "done",
                          !.result = SkillResponse(TRUE, Response("reply", 0, NoReason),
                              call.role, call.policy.reason, call.action, call.user)]
                 [] sent.kind = "raise" /\ sent.exc = "RuntimeError" ->
                      [call EXCEPT !.pc = "done",
                          !.result = SkillResponse(TRUE,
                              Response("gateway_error", 0, NoReason),
                              call.role, EXECUTION_ERROR, call.action, call.user)]
                 [] OTHER -> [call EXCEPT !.pc = "raised"]]
    /\ UNCHANGED <<now, windows, role_map, elsewhere>>

\* the caller, with the result of a call in hand, is ready to issue the
\* next one
NextCall(c) ==
    /\ calls[c].pc \in {"done", "raised"}
    /\ calls' = [calls EXCEPT ![c] = IdleCall]
    /\ UNCHANGED <<now, windows, role_map, elsewhere>>

(***************************************************************************)
(* Concurrent dispatch calls on a representative set of requests.  The     *)
(* calls interleave between the steps of dispatch: neither the router nor  *)
(* the limiter holds a lock across them (_get_lock is never called).       *)
(* Calls are issued in the order of their ids.                             *)
(***************************************************************************)
\* a gateway that answers, one that is down and one that hangs
FewGateways == {Answer(200, [reply |-> "r"]), Unreachable, TimedOut}

Request(user, action, params) == [user |-> user, action |-> action, params |-> params]

Requests ==
    { Request("U_X", "get_status", EmptyBag),
      Request("U_X", "run_code", [language |-> "bash"]),
      Request("U_OP", "run_code", [language |-> "python", timeout_seconds |-> 5]),
      Request("U_OP", "run_code", [language |-> "bash", timeout_seconds |-> 5]),
      Request("U_GHOST", "run_code", [language |-> "python"]),
      Request(UnhashableId, "get_status", EmptyBag) }

Next ==
    \/ \E d \in TickSteps : Tick(d)
    \/ \E c \in CallIds, r \in Requests : StepResolve(c, r.user, r.action, r.params)
    \/ \E c \in CallIds : StepRateCheck(c)
    \/ \E c \in CallIds : StepPolicy(c)
    \/ \E c \in CallIds : StepRecord(c)
    \/ \E c \in CallIds, g \in FewGateways, d \in BOOLEAN : StepSend(c, g, d)

Spec == Init /\ [][Next]_vars

(***************************************************************************)
(* One dispatch call at a time on every combination of user, action and    *)
(* parameter bag: the policy engine on its whole input space.              *)
(***************************************************************************)
Opt(k, values) == {EmptyBag} \cup {[x \in {k} |-> v] : v \in values}

ParamSpace ==
    { Merge(t, Merge(l, Merge(n, Merge(p, Merge(u, k))))) :
        t \in Opt("timeout_seconds", {2, 4}),
        l \in Opt("language", {"", "python", "bash"}),
        n \in Opt("content", {Str(<<"a", "a">>), Str(<<"a", "e_acute">>),
                              NonStr(<<"a", "a", "a">>)}),
        p \in Opt("path", {<<"/", "t">>, <<"x", "/", "e", "t", "c">>}),
        u \in Opt("url", {<<"h", "1", "2">>, <<"h", "1", "2", "7", ".">>}),
        k \in Opt("code", {"c"}) }

PolicyUsers == {"U_OP", "U_ADMIN", "U_X", "U_GHOST", "U_NOBODY", ""}

PolicyActions == {"run_code", "write_file", "send_message", "get_status", "launch"}

NextPolicy ==
    \/ /\ calls[1].pc = "idle"
       /\ \E u \in PolicyUsers, a \in PolicyActions, p \in ParamSpace :
              StepResolve(1, u, a, p)
    \/ StepRateCheck(1)
    \/ StepPolicy(1)
    \/ StepRecord(1)
    \/ \E g \in FewGateways, d \in BOOLEAN : StepSend(1, g, d)

SpecPolicy == Init /\ [][NextPolicy]_vars
(***************************************************************************)
(* One dispatch call at a time against every behaviour of the              *)
(* collaborators: a resolver that raises, and a gateway that is down,      *)
(* hangs, or answers with any status and any of the reply fields.          *)
(***************************************************************************)
Statuses == {200, 204, 304, 400, 503}

Bodies ==
    { Merge(r, Merge(t, m)) :
        r \in Opt("reply", {"", "r"}),
        t \in Opt("text", {"", "t"}),
        m \in Opt("message", {"", "m"}) }

Gateways ==
    {Unreachable, TimedOut} \cup {Answer(st, b) : st \in Statuses, b \in Bodies}

ExceptionMessages == {"", "boom"}

\* requests that are forwarded, and one request for each way of being
\* denied: not allowed, explicitly denied, language, size, path, url,
\* unknown role, rate limit
GatewayRequests ==
    { Request("U_X", "get_status", EmptyBag),
      Request("U_OP", "run_code",
              [language |-> "python", code |-> "c", timeout_seconds |-> 5]),
      Request("U_ADMIN", "launch", [path |-> EtcPath]),
      Request("U_X", "run_code", [language |-> "bash"]),
      Request("U_OP", "write_file", EmptyBag),
      Request("U_OP", "run_code", [language |-> "bash"]),
      Request("U_OP", "run_code", [content |-> Str(<<"a", "e_acute">>)]),
      Request("U_OP", "run_code", [path |-> EtcPath]),
      Request("U_OP", "run_code", [url |-> LocalPat]),
      Request("U_GHOST", "get_status", EmptyBag),
      Request("U_NOBODY", "get_status", EmptyBag) }

NextGateway ==
    \/ /\ calls[1].pc = "idle"
       /\ \E r \in GatewayRequests : StepResolve(1, r.user, r.action, r.params)
    \/ /\ calls[1].pc = "idle"
       /\ \E r \in GatewayRequests, m \in ExceptionMessages :
              StepResolveFault(1, r.user, r.action, r.params, m)
    \/ StepRateCheck(1)
    \/ StepPolicy(1)
    \/ StepRecord(1)
    \/ \E g \in Gateways, d \in BOOLEAN : StepSend(1, g, d)

SpecGateway == Init /\ [][NextGateway]_vars

(***************************************************************************)
(* Any number of dispatch calls, one after the other, inside one window:   *)
(* enough of them to reach the default rate limit of a role that           *)
(* configures none.                                                        *)
(***************************************************************************)
SequentialRequests ==
    { Request("U_ADMIN", "get_status", EmptyBag),
      Request("U_ADMIN", "send_message", EmptyBag),
      Request("U_X", "get_status", EmptyBag),
      Request("U_OP", "run_code", [language |-> "python", timeout_seconds |-> 5]),
      Request("U_GHOST", "get_status", EmptyBag),
      Request("U_NOBODY", "get_status", EmptyBag) }

NextSequential ==
    \/ /\ calls[1].pc = "idle"
       /\ \E r \in SequentialRequests : StepResolve(1, r.user, r.action, r.params)
    \/ StepRateCheck(1)
    \/ StepPolicy(1)
    \/ StepRecord(1)
    \/ \E g \in FewGateways, d \in BOOLEAN : StepSend(1, g, d)
    \/ NextCall(1)

SpecSequential == Init /\ [][NextSequential]_vars

(***************************************************************************)
(* The RateLimiter on its own: check, record, current_count and reset      *)
(* called one after the other, in any order, for two users and any role,   *)
(* under the monotonic clock.  A run starts with empty windows or with a   *)
(* user who already has nine or ten requests on record.                    *)
(***************************************************************************)
LimiterUsers == {"U_A", "U_B"}

LimiterRoles == {"operator", "admin", "ghost", "nobody"}

Operation(op, user, role, ok, count, before) ==
    [op |-> op, user |-> user, role |-> role, ok |-> ok, count |-> count,
     before |-> before, at |-> now,
     started |-> {c \in CallIds : calls[c].pc # "idle"}]

Zeros(n) == [i \in 1..n |-> 0]

StartWindows ==
    { EmptyBag,
      [U_A |-> Zeros(DEFAULT_RATE_LIMIT - 1)],
      [U_A |-> Zeros(DEFAULT_RATE_LIMIT)] }

InitLimiter ==
    /\ now = 0
    /\ windows \in StartWindows
    /\ calls = [c \in CallIds |-> IdleCall]
    /\ role_map = RoleMap
    /\ InitElsewhere

\* limiter.check(user, role, roles_config)
Check(user, role) ==
    /\ LET chk == RateCheck(windows, user, role, now)
       IN  /\ windows' = WithWindow(windows, user, chk.window)
           /\ last' = Operation("check", user, role, chk.ok, 0,
                                GetWindow(windows, user))
    /\ UNCHANGED <<now, calls, role_map, default_role, locks, middleware, kafka, server>>

\* limiter.record(user)
Record(user) ==
    /\ Len(GetWindow(windows, user)) < MaxWindow
    /\ windows' = RateRecord(windows, user, now)
    /\ last' = Operation("record", user, "", FALSE, 0, GetWindow(windows, user))
    /\ UNCHANGED <<now, calls, role_map, default_role, locks, middleware, kafka, server>>

\* limiter.current_count(user)
Count(user) ==
    /\ LET cnt == CurrentCount(windows, user, now)
       IN  /\ windows' = WithWindow(windows, user, cnt.window)
           /\ last' = Operation("current_count", user, "", FALSE, cnt.count,
                                GetWindow(windows, user))
    /\ UNCHANGED <<now, calls, role_map, default_role, locks, middleware, kafka, server>>

\* limiter.reset(user)
Reset(user) ==
    /\ windows' = ResetWindows(windows, user)
    /\ last' = Operation("reset", user, "", FALSE, 0, GetWindow(windows, user))
    /\ UNCHANGED <<now, calls, role_map, default_role, locks, middleware, kafka, server>>

NextLimiter ==
    \/ \E d \in TickSteps : Tick(d)
    \/ \E u \in LimiterUsers, r \in LimiterRoles : Check(u, r)
    \/ \E u \in LimiterUsers : Record(u)
    \/ \E u \in LimiterUsers : Count(u)
    \/ \E u \in LimiterUsers : Reset(u)

SpecLimiter == InitLimiter /\ [][NextLimiter]_vars

(***************************************************************************)
(* The router together with the administrative calls of its limiter:      *)
(* dispatch calls, current_count and reset are made one after the other,   *)
(* a new one when no dispatch is in flight.  Two users share the default   *)
(* role.  A run starts with empty windows or with a user whose window is   *)
(* full.                                                                   *)
(***************************************************************************)
AdminUsers == {"U_X", "U_Y", "U_OP"}

AdminRequests ==
    { Request("U_X", "get_status", EmptyBag),
      Request("U_Y", "get_status", EmptyBag),
      Request("U_OP", "run_code", [language |-> "python"]) }

FullWindows ==
    { EmptyBag,
      [U_X |-> Zeros(RateLimitOf(Resolve("U_X").role))],
      [U_OP |-> Zeros(RateLimitOf(Resolve("U_OP").role))] }

InitAdmin ==
    /\ now = 0
    /\ calls = [c \in CallIds |-> IdleCall]
    /\ role_map = RoleMap
    /\ InitElsewhere
    /\ windows \in FullWindows

\* no dispatch call is in flight
Quiet == \A c \in CallIds : ~InFlight(calls[c])

NextAdmin ==
    \/ \E d \in TickSteps : Tick(d)
    \/ /\ Quiet
       /\ \E c \in CallIds, r \in AdminRequests :
              StepResolve(c, r.user, r.action, r.params)
    \/ /\ Quiet
       /\ \E u \in AdminUsers : Count(u)
    \/ /\ Quiet
       /\ \E u \in AdminUsers : Reset(u)
    \/ \E c \in CallIds : StepRateCheck(c)
    \/ \E c \in CallIds : StepPolicy(c)
    \/ \E c \in CallIds : StepRecord(c)
    \/ \E c \in CallIds : StepSend(c, Answer(200, [reply |-> "r"]), TRUE)

SpecAdmin == InitAdmin /\ [][NextAdmin]_vars

(***************************************************************************)
(* The middleware: get_skill_router and reset_skill_router around the      *)
(* dispatch calls of one request at a time.  The environment variable and  *)
(* the identity file may differ from one build to the next, and a build    *)
(* fails when roles.yaml cannot be loaded.                                 *)
(***************************************************************************)
\* get_skill_router raised instead of returning a router
Raised == -1

Environs ==
    { Unset, Garbled,
      JsonObject([U_OP |-> "operator"]),
      JsonObject([U_OP |-> "operator", default |-> "admin"]) }

IdentityFiles ==
    { MissingFile, UnparsableFile,
      YamlFile([U_OP |-> "admin"]),
      YamlFile([U_OP |-> "admin", default |-> "operator"]) }

\* mutant of GetSkillRouter: the cache is not consulted
GetSkillRouter_Rebuilds(environ, identity_file, readable) ==
    /\ readable => built < MaxBuilds
    /\ IF ~readable
       THEN /\ handed' = handed \cup {Raised}
            /\ UNCHANGED <<router_instance, built, loaded, windows, role_map,
                           default_role>>
       ELSE LET resolver == FromEnv(environ, identity_file, DEFAULT_ROLE)
            IN  /\ role_map' = resolver.role_map
                /\ default_role' = resolver.default_role
                /\ windows' = EmptyBag
                /\ built' = built + 1
                /\ router_instance' = built + 1
                /\ handed' = handed \cup {built + 1}
                /\ loaded' = [environ |-> environ, identity_file |-> identity_file]
    /\ UNCHANGED <<now, calls, locks, last, kafka, server>>

\* get_skill_router(): the cached router, or a new one built from the
\* configuration; an exception of the build leaves the cache as it is
GetSkillRouter(environ, identity_file, readable) ==
    /\ router_instance = NoRouter /\ readable => built < MaxBuilds
    /\ IF router_instance # NoRouter
       THEN /\ handed' = handed \cup {router_instance}
            /\ UNCHANGED <<router_instance, built, loaded, windows, role_map,
                           default_role>>
       ELSE IF ~readable
       THEN /\ handed' = handed \cup {Raised}
            /\ UNCHANGED <<router_instance, built, loaded, windows, role_map,
                           default_role>>
       ELSE LET resolver == FromEnv(environ, identity_file, DEFAULT_ROLE)
            IN  /\ role_map' = resolver.role_map
                /\ default_role' = resolver.default_role
                /\ windows' = EmptyBag
                /\ built' = built + 1
                /\ router_instance' = built + 1
                /\ handed' = handed \cup {built + 1}
                /\ loaded' = [environ |-> environ, identity_file |-> identity_file]
    /\ UNCHANGED <<now, calls, locks, last, kafka, server>>

\* reset_skill_router()
ResetSkillRouter ==
    /\ router_instance' = NoRouter
    /\ handed' = {}
    /\ UNCHANGED <<built, loaded, now, windows, calls, role_map, default_role,
                   locks, last, kafka, server>>

MiddlewareRequests ==
    { Request("U_OP", "get_status", EmptyBag),
      Request("U_X", "get_status", EmptyBag),
      Request("default", "get_status", EmptyBag) }

NextMiddleware ==
    \/ /\ calls[1].pc = "idle"
       /\ \E e \in Environs, f \in IdentityFiles, r \in BOOLEAN :
              GetSkillRouter(e, f, r)
    \/ /\ calls[1].pc = "idle"
       /\ ResetSkillRouter
    \/ /\ calls[1].pc = "idle"
       /\ router_instance # NoRouter
       /\ \E r \in MiddlewareRequests : StepResolve(1, r.user, r.action, r.params)
    \/ StepRateCheck(1)
    \/ StepPolicy(1)
    \/ StepRecord(1)
    \/ StepSend(1, Answer(200, [reply |-> "r"]), TRUE)
    \/ NextCall(1)

SpecMiddleware == Init /\ [][NextMiddleware]_vars

(***************************************************************************)
(* The Kafka consumer of the marketing agent: runs of _consume_loop over   *)
(* two partitions whose logs hold MaxOffset messages each.  The group      *)
(* commits by hand (enable.auto.commit is off): commit(message=msg) stores *)
(* the offset after msg as the committed offset of the partition of msg,   *)
(* and a run starts to fetch each partition at its committed offset.       *)
(***************************************************************************)
\* the configured MAX_EVENTS_PER_RUN of the runs
MAX_EVENTS_PER_RUN == 2

\* the condition of the while loop
LoopCondition == running /\ events_processed < MAX_EVENTS_PER_RUN

Polling == stage = "loop" /\ LoopCondition

service ==
    <<now, windows, calls, role_map, default_role, locks, last, middleware, server>>

\* poll returns no message within the timeout ("idle"), or the end of a
\* partition ("eof"): break
PollNothing(why) ==
    /\ Polling
    /\ stage' = "left"
    /\ exit_path' = why
    /\ UNCHANGED <<position, committed, events_processed, running, handled, failed,
                   shutdown>>
    /\ UNCHANGED service

\* poll returns another error (KafkaException), or a message whose value
\* is no JSON (json.loads raises before the try block): the exception
\* leaves the loop
PollRaises ==
    /\ Polling
    /\ \/ UNCHANGED position
       \/ \E p \in Partitions :
              /\ position[p] < MaxOffset
              /\ position' = [position EXCEPT ![p] = @ + 1]
    /\ stage' = "raised"
    /\ exit_path' = "exception"
    /\ UNCHANGED <<committed, events_processed, running, handled, failed, shutdown>>
    /\ UNCHANGED service

\* poll returns the next message of a partition and the agent handles it:
\* on success the message is committed and counted; when handle_event
\* raises, the message is written to the failed tasks (an exception of
\* fail_task itself leaves the loop) and the loop goes on
PollMessage(p, succeeds, logged) ==
    /\ Polling
    /\ position[p] < MaxOffset
    /\ position' = [position EXCEPT ![p] = @ + 1]
    /\ handled' = handled + 1
    /\ IF succeeds
       THEN /\ committed' = [committed EXCEPT ![p] = position[p] + 1]
            /\ events_processed' = events_processed + 1
            /\ UNCHANGED <<failed, stage, exit_path>>
       ELSE /\ failed' = failed \cup {<<p, position[p]>>}
            /\ stage' = IF logged THEN stage ELSE "raised"
            /\ exit_path' = IF logged THEN exit_path ELSE "exception"
            /\ UNCHANGED <<committed, events_processed>>
    /\ UNCHANGED <<running, shutdown>>
    /\ UNCHANGED service

\* _handle_shutdown: SIGTERM or SIGINT
HandleShutdown ==
    /\ stage = "loop"
    /\ running
    /\ running' = FALSE
    /\ UNCHANGED <<position, committed, events_processed, stage, handled, failed,
                   exit_path, shutdown>>
    /\ UNCHANGED service

\* the while condition is false, by a shutdown signal ("signal") or by the
\* event limit ("limit"): the loop ends
LoopEnds ==
    /\ stage = "loop"
    /\ ~LoopCondition
    /\ stage' = "left"
    /\ exit_path' = IF ~running THEN "signal" ELSE "limit"
    /\ UNCHANGED <<position, committed, events_processed, running, handled, failed,
                   shutdown>>
    /\ UNCHANGED service

\* the loop is over and the finally block of start() has done these steps
Finishing(done) == stage \in {"left", "raised"} /\ shutdown = done

\* _shutdown_flush: self.agent is set, flush_memory runs; when it raises,
\* the exception leaves start() and the rest of the block is skipped
ShutdownFlush(flushed) ==
    /\ Finishing(<<>>)
    /\ shutdown' = IF flushed THEN <<"flush">> ELSE <<"flush_raised">>
    /\ UNCHANGED <<position, committed, events_processed, running, stage, handled,
                   failed, exit_path>>
    /\ UNCHANGED service

\* mutant of ConsumerClose: the consumer is closed first
ConsumerClose_First ==
    /\ Finishing(<<>>)
    /\ shutdown' = Append(shutdown, "close")
    /\ UNCHANGED <<position, committed, events_processed, running, stage, handled,
                   failed, exit_path>>
    /\ UNCHANGED service

\* self.consumer.close()
ConsumerClose ==
    /\ Finishing(<<"flush">>)
    /\ shutdown' = Append(shutdown, "close")
    /\ UNCHANGED <<position, committed, events_processed, running, stage, handled,
                   failed, exit_path>>
    /\ UNCHANGED service

\* self.memory.close()
MemoryClose ==
    /\ Finishing(<<"flush", "close">>)
    /\ shutdown' = Append(shutdown, "memory_close")
    /\ UNCHANGED <<position, committed, events_processed, running, stage, handled,
                   failed, exit_path>>
    /\ UNCHANGED service

\* start() has returned or raised
Exited ==
    /\ stage \in {"left", "raised"}
    /\ shutdown \in {<<"flush", "close", "memory_close">>, <<"flush_raised">>}

\* the next trigger starts a new process: AgentBoxConsumer() and start()
NextRun ==
    /\ Exited
    /\ position' = committed
    /\ events_processed' = 0
    /\ running' = TRUE
    /\ stage' = "loop"
    /\ handled' = 0
    /\ failed' = {}
    /\ exit_path' = ""
    /\ shutdown' = <<>>
    /\ UNCHANGED committed
    /\ UNCHANGED service

NextKafka ==
    \/ \E why \in {"idle", "eof"} : PollNothing(why)
    \/ PollRaises
    \/ \E p \in Partitions, succeeds \in BOOLEAN, logged \in BOOLEAN :
           PollMessage(p, succeeds, logged)
    \/ HandleShutdown
    \/ LoopEnds
    \/ \E flushed \in BOOLEAN : ShutdownFlush(flushed)
    \/ ConsumerClose
    \/ MemoryClose
    \/ NextRun

SpecKafka == Init /\ [][NextKafka]_vars

(***************************************************************************)
(* A2A server (server.py): POST / with the registry _tasks of asyncio      *)
(* tasks that run _invoke_openclaw.  a2a_root reads and writes no shared   *)
(* state before the end of its two first awaits (token validation in a     *)
(* thread, request.json()), so a request enters the model where its        *)
(* handler resumes after them; from there a step runs to the next await    *)
(* or yield.                                                               *)
(***************************************************************************)
A2A_JSONRPC == "2.0"

\* the state outside the A2A server
outside ==
    <<now, windows, calls, role_map, default_role, locks, last, middleware, kafka>>

\* texts are sequences of characters; "nl" is the newline
Whitespace == {" ", "nl"}

RECURSIVE LStrip(_)
LStrip(s) == IF s # <<>> /\ Head(s) \in Whitespace THEN LStrip(Tail(s)) ELSE s

RECURSIVE RStrip(_)
RStrip(s) ==
    IF s # <<>> /\ s[Len(s)] \in Whitespace
    THEN RStrip(SubSeq(s, 1, Len(s) - 1))
    ELSE s

\* str.strip()
Strip(s) == RStrip(LStrip(s))

RECURSIVE JoinLines(_)
JoinLines(chunks) ==
    IF chunks = <<>> THEN <<>>
    ELSE IF Len(chunks) = 1 THEN chunks[1]
    ELSE chunks[1] \o <<"nl">> \o JoinLines(Tail(chunks))

\* mutant of ExtractTextFromParts: the joined text is not stripped
ExtractTextFromParts_Unstripped(parts) ==
    JoinLines(SelectSeq(parts, LAMBDA t : t # <<>>))

\* _extract_text_from_parts: the non-empty texts of the parts, joined by
\* newlines and stripped; a part is given by its text, <<>> when it has none
ExtractTextFromParts(parts) ==
    Strip(JoinLines(SelectSeq(parts, LAMBDA t : t # <<>>)))

\* the caller line a2a_root puts before the text of an authenticated caller
WithCaller(task_text) == <<"[A2A caller]", "nl">> \o task_text

\* _a2a_error(code, message, rpc_id, http_status)
A2aError(code, http_status) ==
    [kind |-> "error", http |-> http_status, code |-> code, state |-> "",
     text |-> <<>>]

\* a JSON-RPC result holding _make_task_obj(task_id, context_id, state, text)
TaskReply(state, text) ==
    [kind |-> "task", http |-> 200, code |-> 0, state |-> state, text |-> text]

\* the result of message/send: the message of the agent
MessageReply(text) ==
    [kind |-> "message", http |-> 200, code |-> 0, state |-> "", text |-> text]

\* EventSourceResponse(generator)
EventSource ==
    [kind |-> "events", http |-> 200, code |-> 0, state |-> "", text |-> <<>>]

\* an exception that leaves a2a_root
Unhandled ==
    [kind |-> "unhandled", http |-> 500, code |-> 0, state |-> "", text |-> <<>>]

\* an event of message/stream
StatusUpdate(state, final, text) ==
    [kind |-> "status-update", state |-> state, final |-> final, text |-> text,
     code |-> 0]

\* the events of the stream of tasks/send
TaskEvent(state, text) ==
    [kind |-> "task", state |-> state, final |-> FALSE, text |-> text, code |-> 0]

ErrorEvent(code) ==
    [kind |-> "error", state |-> "", final |-> FALSE, text |-> <<>>, code |-> code]

\* the values uuid.uuid4() gives for task ids, one for each task created
Uuids == <<"uuid-1", "uuid-2", "uuid-3", "uuid-4", "uuid-5">>

Uuid4 == Uuids[Len(invocations) + 1]

\* asyncio.Task.done()
Done(task) == invocations[task].state # "running"

\* asyncio.create_task(_invoke_openclaw(task_text)); _tasks[task_id] = task
Registered(task_id, task) ==
    [t \in DOMAIN tasks \cup {task_id} |-> IF t = task_id THEN task ELSE tasks[t]]

NewTask(task_id, task_text, disclosed) ==
    [id |-> task_id, text |-> task_text, state |-> "running", output |-> <<>>,
     disclosed |-> disclosed]

\* the id parameter is absent
NoId == "(absent)"

\* the first of the tests of a2a_root that turns the request down
Screen(q) ==
    IF q.auth # "ok" THEN A2aError(-32000, 401)
    ELSE IF q.body # "json" THEN A2aError(-32700, 400)
    ELSE IF q.envelope # "valid" THEN A2aError(-32600, 400)
    ELSE IF q.jsonrpc # A2A_JSONRPC THEN A2aError(-32600, 200)
    ELSE IF q.method \in {"message/send", "message/stream", "tasks/send"}
         THEN IF ExtractTextFromParts(q.parts) = <<>>
              THEN A2aError(-32602, 200)
              ELSE NoReply
    ELSE IF q.method = "tasks/get" THEN NoReply
    ELSE A2aError(-32601, 200)

\* the task ids a client makes up, and those the server has told a client
ClientIds == {"T1", "T9"}

KnownIds ==
    ClientIds \cup {invocations[i].id : i \in {j \in DOMAIN invocations :
                                                  invocations[j].disclosed}}

\* a POST / request: what the three first tests find, and the JSON-RPC call
Post(auth, body, envelope, jsonrpc, method, parts, id, stream) ==
    [auth |-> auth, body |-> body, envelope |-> envelope, jsonrpc |-> jsonrpc,
     method |-> method, parts |-> parts, id |-> id, stream |-> stream]

Rpc(method, parts, id, stream) ==
    Post("ok", "json", "valid", A2A_JSONRPC, method, parts, id, stream)

Hi == <<"h", "i">>
Blank == <<" ">>

Posts ==
    { Post("denied", "json", "valid", A2A_JSONRPC, "message/send", <<Hi>>, NoId, FALSE),
      Post("ok", "garbage", "valid", A2A_JSONRPC, "message/send", <<Hi>>, NoId, FALSE),
      Post("ok", "json", "invalid", A2A_JSONRPC, "tasks/send", <<Hi>>, "T1", FALSE),
      Post("ok", "json", "valid", "1.0", "tasks/send", <<Hi>>, "T1", FALSE),
      Rpc("message/send", <<Hi>>, NoId, FALSE),
      Rpc("message/send", <<Blank, <<>>>>, NoId, FALSE),
      Rpc("message/stream", <<Blank, Hi>>, NoId, FALSE),
      Rpc("message/stream", <<>>, NoId, FALSE),
      Rpc("tasks/send", <<Hi>>, "T1", FALSE),
      Rpc("tasks/send", <<Hi>>, "T1", TRUE),
      Rpc("tasks/send", <<Blank, Blank>>, "T1", FALSE),
      Rpc("tasks/send", <<Hi>>, NoId, FALSE),
      Rpc("tasks/send", <<Hi>>, "uuid-1", FALSE),
      Rpc("tasks/get", <<>>, "T1", FALSE),
      Rpc("tasks/get", <<>>, "T9", FALSE),
      Rpc("tasks/get", <<>>, "uuid-1", FALSE),
      Rpc("tasks/get", <<>>, NoId, FALSE),
      Rpc("tasks/cancel", <<Hi>>, "T1", FALSE) }

\* what _invoke_openclaw returns
Outputs == {<<"o", "k">>}

\* every answer given so far has been taken by its client: taking an answer
\* (NextRequest) changes nothing else and is done before any other step
Taken == \A r \in RequestIds : requests[r].pc \notin {"replied", "closed"}

\* a request arrives and is given the first free slot
Arrives(r, q) ==
    /\ requests[r].pc = "idle"
    /\ \A b \in RequestIds : b < r => requests[b].pc # "idle"
    /\ Taken
    /\ q.id \in KnownIds \cup {NoId}

\* a2a_root returns an error before the method is served
A2aRootRejects(r, q) ==
    /\ Arrives(r, q)
    /\ Screen(q) # NoReply
    /\ requests' = [requests EXCEPT ![r] =
           [@ EXCEPT !.pc = "replied", !.q = q, !.reply = Screen(q)]]
    /\ UNCHANGED <<tasks, invocations, polled, outside>>

\* message/send up to the await of the task
MessageSend(r, q) ==
    /\ q.method = "message/send"
    /\ Arrives(r, q)
    /\ Screen(q) = NoReply
    /\ Len(invocations) < MaxInvocations
    /\ LET task_text == WithCaller(ExtractTextFromParts(q.parts))
           task_id == Uuid4
           task == Len(invocations) + 1
       IN  /\ invocations' = Append(invocations, NewTask(task_id, task_text, FALSE))
           /\ tasks' = Registered(task_id, task)
           /\ requests' = [requests EXCEPT ![r] =
                  [@ EXCEPT !.pc = "await", !.q = q, !.task_id = task_id,
                            !.task = task, !.started = @ + 1, !.wrote = @ + 1]]
    /\ UNCHANGED <<polled, outside>>

\* asyncio.wait_for(task) returns or raises what the task did
MessageSendReply(r) ==
    /\ Taken
    /\ requests[r].pc = "await"
    /\ Done(requests[r].task)
    /\ LET task == invocations[requests[r].task]
       IN  requests' = [requests EXCEPT ![r] =
               [@ EXCEPT !.pc = "replied",
                         !.reply = IF task.state = "returned"
                                   THEN MessageReply(task.output)
                                   ELSE A2aError(-32001, 200)]]
    /\ UNCHANGED <<tasks, invocations, polled, outside>>

\* asyncio.wait_for(task) times out: it cancels the task and raises
MessageSendTimeout(r) ==
    /\ Taken
    /\ requests[r].pc = "await"
    /\ ~Done(requests[r].task)
    /\ invocations' = [invocations EXCEPT ![requests[r].task].state = "cancelled"]
    /\ requests' = [requests EXCEPT ![r] =
           [@ EXCEPT !.pc = "replied", !.timed_out = TRUE,
                     !.reply = A2aError(-32001, 200)]]
    /\ UNCHANGED <<tasks, polled, outside>>

\* message/stream up to the return of the EventSourceResponse
MessageStream(r, q) ==
    /\ q.method = "message/stream"
    /\ Arrives(r, q)
    /\ Screen(q) = NoReply
    /\ Len(invocations) < MaxInvocations
    /\ LET task_text == WithCaller(ExtractTextFromParts(q.parts))
           task_id == Uuid4
           task == Len(invocations) + 1
       IN  /\ invocations' = Append(invocations, NewTask(task_id, task_text, FALSE))
           /\ tasks' = Registered(task_id, task)
           /\ requests' = [requests EXCEPT ![r] =
                  [@ EXCEPT !.pc = "stream", !.q = q, !.task_id = task_id,
                            !.task = task, !.started = @ + 1, !.wrote = @ + 1,
                            !.reply = EventSource]]
    /\ UNCHANGED <<polled, outside>>

\* mutant of SseWorking: the working event is sent as a final one
SseWorking_Final(r) ==
    /\ Taken
    /\ requests[r].pc = "stream"
    /\ requests' = [requests EXCEPT ![r] =
           [@ EXCEPT !.pc = "stream_wait",
                     !.events = Append(@, StatusUpdate("working", TRUE, <<>>))]]
    /\ invocations' = [invocations EXCEPT ![requests[r].task].disclosed = TRUE]
    /\ UNCHANGED <<tasks, polled, outside>>

\* _sse_events, step 1: the working status-update, which carries the task id
SseWorking(r) ==
    /\ Taken
    /\ requests[r].pc = "stream"
    /\ requests' = [requests EXCEPT ![r] =
           [@ EXCEPT !.pc = "stream_wait",
                     !.events = Append(@, StatusUpdate("working", FALSE, <<>>))]]
    /\ invocations' = [invocations EXCEPT ![requests[r].task].disclosed = TRUE]
    /\ UNCHANGED <<tasks, polled, outside>>

\* _sse_events, steps 2 and 3: the shielded task is done; the generator ends
\* after the event
SseFinal(r) ==
    /\ Taken
    /\ requests[r].pc = "stream_wait"
    /\ Done(requests[r].task)
    /\ LET task == invocations[requests[r].task]
       IN  requests' = [requests EXCEPT ![r] =
               [@ EXCEPT !.pc = "closed",
                         !.events = Append(@,
                             IF task.state = "returned"
                             THEN StatusUpdate("completed", TRUE, task.output)
                             ELSE StatusUpdate("failed", TRUE, <<>>))]]
    /\ UNCHANGED <<tasks, invocations, polled, outside>>

\* _sse_events, step 2: wait_for times out; the shield keeps the task running
SseTimeout(r) ==
    /\ Taken
    /\ requests[r].pc = "stream_wait"
    /\ ~Done(requests[r].task)
    /\ requests' = [requests EXCEPT ![r] =
           [@ EXCEPT !.pc = "closed", !.timed_out = TRUE,
                     !.events = Append(@, StatusUpdate("failed", TRUE, <<>>))]]
    /\ UNCHANGED <<tasks, invocations, polled, outside>>

\* mutant of Superseded: a registered task is always replaced
Superseded_Always(existing) == TRUE

\* existing is None or existing.done()
Superseded(existing) == existing = NoTask \/ Done(existing)

\* tasks/send up to its return
TasksSend(r, q) ==
    /\ q.method = "tasks/send"
    /\ Arrives(r, q)
    /\ Screen(q) = NoReply
    /\ LET task_text == WithCaller(ExtractTextFromParts(q.parts))
           task_id == IF q.id = NoId THEN Uuid4 ELSE q.id
           existing == Get(tasks, task_id, NoTask)
           task == Len(invocations) + 1
           answered == [requests[r] EXCEPT
                           !.pc = IF q.stream THEN "legacy" ELSE "replied",
                           !.q = q, !.task_id = task_id,
                           !.reply = IF q.stream THEN EventSource
                                     ELSE TaskReply("working", <<>>)]
       IN  /\ q.id = NoId => Len(invocations) < MaxInvocations
           /\ IF Superseded(existing)
              THEN /\ Len(invocations) < MaxInvocations
                   /\ invocations' = Append(invocations,
                                            NewTask(task_id, task_text, TRUE))
                   /\ tasks' = Registered(task_id, task)
                   /\ requests' = [requests EXCEPT ![r] =
                          [answered EXCEPT !.task = task, !.started = @ + 1,
                                           !.wrote = @ + 1]]
              ELSE /\ requests' = [requests EXCEPT ![r] = answered]
                   /\ UNCHANGED <<tasks, invocations>>
    /\ UNCHANGED <<polled, outside>>

\* legacy_events: the working event
LegacyWorking(r) ==
    /\ Taken
    /\ requests[r].pc = "legacy"
    /\ requests' = [requests EXCEPT ![r] =
           [@ EXCEPT !.pc = "legacy_wait",
                     !.events = Append(@, TaskEvent("working", <<>>))]]
    /\ UNCHANGED <<tasks, invocations, polled, outside>>

\* legacy_events: the loop finds the registered task done (it sleeps
\* otherwise) and ends after the event
LegacyPoll(r) ==
    /\ Taken
    /\ requests[r].pc = "legacy_wait"
    /\ Done(tasks[requests[r].task_id])
    /\ LET t == invocations[tasks[requests[r].task_id]]
       IN  requests' = [requests EXCEPT ![r] =
               [@ EXCEPT !.pc = "closed",
                         !.events = Append(@,
                             IF t.state = "returned"
                             THEN TaskEvent("completed", t.output)
                             ELSE ErrorEvent(-32001))]]
    /\ UNCHANGED <<tasks, invocations, polled, outside>>

\* mutant of TasksGetReply: a task that raised is reported as working
TasksGetReply_FailedIsWorking(task_id) ==
    LET task == Get(tasks, task_id, NoTask)
    IN  IF task = NoTask THEN TaskReply("unknown", <<>>)
        ELSE IF invocations[task].state = "returned"
             THEN TaskReply("completed", invocations[task].output)
        ELSE TaskReply("working", <<>>)

\* the reply of tasks/get; the CancelledError of a cancelled task is no
\* Exception and leaves the handler
TasksGetReply(task_id) ==
    LET task == Get(tasks, task_id, NoTask)
    IN  IF task = NoTask THEN TaskReply("unknown", <<>>)
        ELSE IF ~Done(task) THEN TaskReply("working", <<>>)
        ELSE IF invocations[task].state = "returned"
             THEN TaskReply("completed", invocations[task].output)
        ELSE IF invocations[task].state = "raised" THEN A2aError(-32001, 200)
        ELSE Unhandled

\* the reply tells how the task ended
Terminal(reply) ==
    \/ reply.kind = "task" /\ reply.state = "completed"
    \/ reply.kind = "error" /\ reply.code = -32001

\* tasks/get
TasksGet(r, q) ==
    /\ q.method = "tasks/get"
    /\ Arrives(r, q)
    /\ Screen(q) = NoReply
    /\ LET task_id == IF q.id = NoId THEN "" ELSE q.id
       IN  /\ requests' = [requests EXCEPT ![r] =
                  [@ EXCEPT !.pc = "replied", !.q = q, !.task_id = task_id,
                            !.task = Get(tasks, task_id, NoTask),
                            !.reply = TasksGetReply(task_id)]]
    /\ UNCHANGED <<tasks, invocations, polled, outside>>

\* _invoke_openclaw returns its output
InvocationReturns(task, output) ==
    /\ Taken
    /\ task \in DOMAIN invocations
    /\ ~Done(task)
    /\ invocations' = [invocations EXCEPT ![task].state = "returned",
                                          ![task].output = output]
    /\ UNCHANGED <<tasks, requests, polled, outside>>

\* _invoke_openclaw raises (the CLI fails or times out, the gateway is down
\* or answers with an error status)
InvocationRaises(task) ==
    /\ Taken
    /\ task \in DOMAIN invocations
    /\ ~Done(task)
    /\ invocations' = [invocations EXCEPT ![task].state = "raised"]
    /\ UNCHANGED <<tasks, requests, polled, outside>>

\* the client takes its answer and the slot serves the next request; polled
\* keeps the answer of tasks/get when it tells how the task ended, with the
\* asyncio task it was about
NextRequest(r) ==
    /\ requests[r].pc \in {"replied", "closed"}
    /\ requests' = [requests EXCEPT ![r] = IdleRequest]
    /\ polled' = IF requests[r].q.method = "tasks/get" /\ Terminal(requests[r].reply)
                  THEN [t \in DOMAIN polled \cup {requests[r].task_id} |->
                           IF t = requests[r].task_id
                           THEN [reply |-> requests[r].reply,
                                 task |-> requests[r].task]
                           ELSE polled[t]]
                  ELSE polled
    /\ UNCHANGED <<tasks, invocations, outside>>

NextServer ==
    \/ \E r \in RequestIds, q \in Posts : A2aRootRejects(r, q)
    \/ \E r \in RequestIds, q \in Posts : MessageSend(r, q)
    \/ \E r \in RequestIds : MessageSendReply(r)
    \/ \E r \in RequestIds : MessageSendTimeout(r)
    \/ \E r \in RequestIds, q \in Posts : MessageStream(r, q)
    \/ \E r \in RequestIds : SseWorking(r)
    \/ \E r \in RequestIds : SseFinal(r)
    \/ \E r \in RequestIds : SseTimeout(r)
    \/ \E r \in RequestIds, q \in Posts : TasksSend(r, q)
    \/ \E r \in RequestIds : LegacyWorking(r)
    \/ \E r \in RequestIds : LegacyPoll(r)
    \/ \E r \in RequestIds, q \in Posts : TasksGet(r, q)
    \/ \E task \in 1..MaxInvocations, output \in Outputs :
           InvocationReturns(task, output)
    \/ \E task \in 1..MaxInvocations : InvocationRaises(task)
    \/ \E r \in RequestIds : NextRequest(r)

SpecServer == Init /\ [][NextServer]_vars

(***************************************************************************)
(* Vocabulary of the properties.                                           *)
(***************************************************************************)
Started(c) == calls[c].pc # "idle"

\* the calls issued so far for a user
CallsOf(user) == {c \in CallIds : Started(c) /\ calls[c].user = user}

\* the request of the call passes identity resolution and the policy
PolicyAllows(c) ==
    /\ ~ResolveRaises(calls[c].user)
    /\ PolicyCheck(Resolve(calls[c].user).role, calls[c].action,
                   calls[c].params).allowed

\* the call was forwarded to the gateway
Admitted(c) == calls[c].gw = 1

RateDenied(c) ==
    /\ calls[c].pc = "done"
    /\ ~calls[c].result.allowed
    /\ calls[c].result.reason = RATE_LIMIT_EXCEEDED

Returned(c) == calls[c].pc \in {"done", "raised"}

\* the rate check of the call has run
RateChecked(c) == Started(c) /\ calls[c].pc # "ratecheck" /\ calls[c].role # ""

\* timestamps of a window that are not older than the window duration
InWindow(window, t) ==
    {i \in 1..Len(window) : window[i] >= t - WINDOW_SECONDS}

AllUsers == {r.user : r \in Requests} \cup PolicyUsers

(***************************************************************************)
(* C1: k concurrent dispatch calls of one user with rate limit N (k > N),  *)
(* all policy-allowed and inside one window that starts empty, admit       *)
(* exactly N calls and deny exactly k - N with the rate-limit reason,      *)
(* whatever the interleaving of their steps.                               *)
(***************************************************************************)
\* C1: with all MaxCalls calls issued for one user, returned, policy-allowed
\* and inside the first window, exactly N were forwarded and the other
\* MaxCalls - N were denied with 'Rate limit exceeded'
C1_ExactlyNAdmitted ==
    \A u \in AllUsers :
        LET N == RateLimitOf(Resolve(u).role)
        IN  ( /\ CallsOf(u) = CallIds
              /\ \A c \in CallIds : Returned(c) /\ PolicyAllows(c)
              /\ MaxCalls > N
              /\ now <= WINDOW_SECONDS )
            => /\ Cardinality({c \in CallIds : Admitted(c)}) = N
               /\ Cardinality({c \in CallIds : RateDenied(c)}) = MaxCalls - N

(***************************************************************************)
(* C2: sequential dispatch calls of one user for policy-allowed actions    *)
(* inside one window that starts empty: the first N (the rate limit of     *)
(* the role) return allowed = true, the next one returns allowed = false   *)
(* with the reason 'Rate limit exceeded'.                                  *)
(***************************************************************************)
SequentialWithinWindow(u) ==
    /\ \A b \in CallsOf(u) : ~calls[b].overlapped /\ PolicyAllows(b)
    /\ now <= WINDOW_SECONDS

\* C2: the nth sequential call of a user inside the window is allowed when
\* n <= N and denied with 'Rate limit exceeded' when n > N
C2_SequentialLimit ==
    \A c \in CallIds :
        LET u == calls[c].user
            nth == Cardinality({b \in CallsOf(u) : b <= c})
        IN  (calls[c].pc = "done" /\ SequentialWithinWindow(u))
            => IF nth <= RateLimitOf(calls[c].role)
               THEN calls[c].result.allowed /\ Admitted(c)
               ELSE RateDenied(c) /\ ~Admitted(c)

C2_Witness ==
    \E c \in CallIds :
        /\ calls[c].pc = "done"
        /\ SequentialWithinWindow(calls[c].user)
        /\ RateLimitOf(calls[c].role) >= 1
        /\ Cardinality({b \in CallsOf(calls[c].user) : b <= c})
               = RateLimitOf(calls[c].role) + 1
        /\ \A b \in CallsOf(calls[c].user) :
               b < c => calls[b].pc = "done" /\ calls[b].result.allowed
        /\ RateDenied(c)
        /\ now = WINDOW_SECONDS

(***************************************************************************)
(* C3: a user that holds N admissions is admitted again by the next        *)
(* dispatch call for a policy-allowed action once the clock has advanced   *)
(* by at least the window duration since the most recent admission.        *)
(* C3_AtLeastWindow states it for an advance >= 60, C3_MoreThanWindow for  *)
(* an advance > 60.                                                        *)
(***************************************************************************)
\* the call looked at a window holding at least N >= 1 admissions, the
\* most recent one `age` time units old
HeldLimit(c) ==
    /\ RateChecked(c)
    /\ PolicyAllows(c)
    /\ calls[c].seen # <<>>
    /\ Len(calls[c].seen) >= RateLimitOf(calls[c].role)

AgeOfLatest(c) == calls[c].checkedAt - calls[c].seen[Len(calls[c].seen)]

AdmittedAgain(c) ==
    /\ ~RateDenied(c)
    /\ calls[c].pc = "done" => calls[c].result.allowed
    /\ Returned(c) => Admitted(c)

PassedRateCheck(c) ==
    /\ RateChecked(c)
    /\ Len(Prune(calls[c].seen, calls[c].checkedAt)) < RateLimitOf(calls[c].role)

\* C4, per call: at most one append, only after both checks passed, none
\* by a call that returned a denial
C4_RecordDiscipline ==
    \A c \in CallIds :
        /\ calls[c].recs <= 1
        /\ calls[c].recs = 1 =>
               /\ PassedRateCheck(c)
               /\ calls[c].policy.allowed
               /\ PolicyAllows(c)
        /\ (calls[c].pc = "done" /\ ~calls[c].result.allowed) => calls[c].recs = 0

\* C4, per step: a step that neither records nor advances the clock leaves
\* the number of in-window timestamps of every user unchanged
C4_OnlyRecordAppends ==
    ( /\ now' = now
      /\ \A c \in CallIds : calls'[c].recs = calls[c].recs )
    => \A u \in AllUsers :
           Cardinality(InWindow(GetWindow(windows', u), now))
               = Cardinality(InWindow(GetWindow(windows, u), now))

\* C4: both parts, in every behaviour
C4_RecordOnlyAfterChecks == []C4_RecordDiscipline /\ [][C4_OnlyRecordAppends]_vars

C4_Witness ==
    \E c, d \in CallIds :
        /\ calls[c].user = calls[d].user
        /\ calls[c].recs = 1
        /\ calls[d].pc = "done"
        /\ calls[d].result.response.kind = "policy_denied"
        /\ calls[d].recs = 0
        /\ calls[d].checkedAt >= calls[c].checkedAt
        /\ Len(GetWindow(windows, calls[d].user)) = 1

(***************************************************************************)
(* C5: a call invokes the gateway at most once, and only after it          *)
(* resolved the identity, passed the rate check and was allowed by the     *)
(* policy engine; the instruction is built from the sanitized parameters   *)
(* of the policy decision, so a forwarded timeout never exceeds the        *)
(* configured maximum.                                                     *)
(***************************************************************************)
ActionConstraints(role, action) ==
    Get(Get(Get(RolesConfig, role, EmptyBag), "parameter_constraints", EmptyBag),
        action, EmptyBag)

\* C5: send_message at most once per call, only for an approved call, with
\* the instruction built from the sanitized parameters
C5_GatewayOnlyWhenApproved ==
    \A c \in CallIds :
        /\ calls[c].gw <= 1
        /\ calls[c].gw = 1 =>
               /\ ~ResolveRaises(calls[c].user)
               /\ calls[c].role = Resolve(calls[c].user).role
               /\ PassedRateCheck(c)
               /\ calls[c].policy.allowed
               /\ calls[c].msg =
                      BuildOpenclawMessage(calls[c].action,
                                           calls[c].policy.sanitized_params)
               /\ ( /\ "timeout_seconds" \in DOMAIN calls[c].msg.fields
                    /\ "max_timeout_seconds" \in
                           DOMAIN ActionConstraints(calls[c].role, calls[c].action) )
                  => calls[c].msg.fields["timeout_seconds"] <=
                         ActionConstraints(calls[c].role,
                                           calls[c].action)["max_timeout_seconds"]
        /\ (calls[c].pc = "done" /\ ~calls[c].result.allowed) => calls[c].gw = 0

C5_Witness ==
    \E c \in CallIds :
        /\ calls[c].gw = 1
        /\ calls[c].msg.kind = "generic"
        /\ "timeout_seconds" \in DOMAIN calls[c].msg.fields
        /\ calls[c].msg.fields["timeout_seconds"] < calls[c].params["timeout_seconds"]

(***************************************************************************)
(* Vocabulary of the policy properties, stated on the request and the      *)
(* role table.                                                             *)
(***************************************************************************)
\* the policy engine has decided on the call
Decided(c) == calls[c].policy.reason.kind # ""

RoleConfigOf(role) == Get(RolesConfig, role, EmptyBag)

DeniedList(role) == Get(RoleConfigOf(role), "denied_actions", <<>>)

AllowedList(role) == Get(RoleConfigOf(role), "allowed_actions", <<>>)

Listed(action, list) == action \in {list[i] : i \in 1..Len(list)}

\* the allow and deny lists of the role let the action through
PermittedByLists(role, action) ==
    /\ role \in KnownRoles
    /\ ~Listed(action, DeniedList(role))
    /\ Listed(action, AllowedList(role)) \/ Listed("*", AllowedList(role))

ByteLength(chars) == Len(chars) + Cardinality({i \in 1..Len(chars) : chars[i] = "e_acute"})

Contains(text, part) ==
    \E i \in 1..(Len(text) + 1), j \in 0..Len(text) : SubSeq(text, i, j) = part

LanguageOutside(ac, p) ==
    /\ "allowed_languages" \in DOMAIN ac
    /\ "language" \in DOMAIN p
    /\ ~Listed(p["language"], ac["allowed_languages"])

ContentTooBig(ac, p) ==
    /\ "max_size_bytes" \in DOMAIN ac
    /\ "content" \in DOMAIN p
    /\ p["content"].isStr
    /\ ByteLength(p["content"].chars) > ac["max_size_bytes"]

PathBlocked(ac, p) ==
    /\ "blocked_paths" \in DOMAIN ac
    /\ "path" \in DOMAIN p
    /\ \E i \in 1..Len(ac["blocked_paths"]) : Contains(p["path"], ac["blocked_paths"][i])

UrlBlocked(ac, p) ==
    /\ "blocked_patterns" \in DOMAIN ac
    /\ "url" \in DOMAIN p
    /\ \E i \in 1..Len(ac["blocked_patterns"]) : Contains(p["url"], ac["blocked_patterns"][i])

\* a hard constraint is violated, any language value outside the whitelist
\* counting
ViolatesHard(ac, p) ==
    LanguageOutside(ac, p) \/ ContentTooBig(ac, p) \/ PathBlocked(ac, p) \/ UrlBlocked(ac, p)

\* the same, an empty language value not counting
ViolatesHardNonEmpty(ac, p) ==
    \/ LanguageOutside(ac, p) /\ p["language"] # ""
    \/ ContentTooBig(ac, p) \/ PathBlocked(ac, p) \/ UrlBlocked(ac, p)

HardDenialKinds ==
    {"language_not_permitted", "content_too_large", "path_not_permitted",
     "url_blocked_pattern"}

\* the call has a decision on a permitted action that has a constraint set
ConstrainedDecision(c) ==
    /\ Decided(c)
    /\ PermittedByLists(calls[c].role, calls[c].action)
    /\ DOMAIN ActionConstraints(calls[c].role, calls[c].action) # {}

(***************************************************************************)
(* C6: an action in the denied_actions of a known role is denied by the    *)
(* policy engine whatever the allow list holds and whatever the            *)
(* parameters are, and dispatch never forwards it to the gateway.          *)
(***************************************************************************)
\* C6: a denied action of a known role is never allowed nor forwarded
C6_DenyWins ==
    \A c \in CallIds :
        ( /\ calls[c].role \in KnownRoles
          /\ Listed(calls[c].action, DeniedList(calls[c].role)) )
        => /\ Decided(c) => /\ ~calls[c].policy.allowed
                            /\ calls[c].policy.reason.kind = "explicitly_denied"
           /\ ~Admitted(c)
           /\ calls[c].pc \notin {"record", "send", "raised"}
           /\ calls[c].pc = "done" => ~calls[c].result.allowed

C6_Witness ==
    \E c \in CallIds :
        /\ calls[c].pc = "done"
        /\ calls[c].role = "admin"
        /\ calls[c].action = "send_message"
        /\ Listed("*", AllowedList("admin"))
        /\ Listed("send_message", AllowedList("admin"))
        /\ calls[c].params # EmptyBag
        /\ calls[c].result.reason.kind = "explicitly_denied"

(***************************************************************************)
(* C7: when the resolved role has no entry in the role table, the policy   *)
(* engine denies with the unknown-role reason and dispatch returns         *)
(* allowed = false without calling the gateway, for every action, every    *)
(* parameter bag and every history of calls.                               *)
(***************************************************************************)
\* C7: a role outside the role table is denied and never forwarded
C7_UnknownRoleDenied ==
    \A c \in CallIds :
        ( /\ Started(c)
          /\ ~ResolveRaises(calls[c].user)
          /\ calls[c].role \notin KnownRoles )
        => /\ Decided(c) => /\ ~calls[c].policy.allowed
                            /\ calls[c].policy.reason.kind = "unknown_role"
                            /\ calls[c].policy.reason.role = calls[c].role
           /\ ~Admitted(c)
           /\ calls[c].recs = 0
           /\ calls[c].pc \notin {"record", "send", "raised"}
           /\ calls[c].pc = "done" => ~calls[c].result.allowed

C7_Witness ==
    \E c, d \in CallIds :
        /\ d < c
        /\ Admitted(d)
        /\ calls[c].pc = "done"
        /\ calls[c].role = "ghost"
        /\ calls[c].action = "run_code"
        /\ calls[c].result.reason.kind = "unknown_role"

C9_TimeoutClamped ==
    \A c \in CallIds :
        LET ac == ActionConstraints(calls[c].role, calls[c].action)
            p == calls[c].params
            out == calls[c].policy.sanitized_params
        IN  ( /\ ConstrainedDecision(c)
              /\ "max_timeout_seconds" \in DOMAIN ac )
            => /\ ( /\ "timeout_seconds" \in DOMAIN p
                    /\ ~ViolatesHardNonEmpty(ac, p) )
                  => /\ calls[c].policy.allowed
                     /\ "timeout_seconds" \in DOMAIN out
                     /\ out["timeout_seconds"] =
                            IF p["timeout_seconds"] > ac["max_timeout_seconds"]
                            THEN ac["max_timeout_seconds"]
                            ELSE p["timeout_seconds"]
               /\ ( /\ calls[c].policy.allowed
                    /\ "timeout_seconds" \in DOMAIN out )
                  => out["timeout_seconds"] <= ac["max_timeout_seconds"]

C9_Witness ==
    \E c \in CallIds :
        /\ ConstrainedDecision(c)
        /\ calls[c].policy.allowed
        /\ "timeout_seconds" \in DOMAIN calls[c].params
        /\ calls[c].params["timeout_seconds"] = 4
        /\ calls[c].policy.sanitized_params["timeout_seconds"] = 3
        /\ calls[c].role = "operator"
        /\ calls[c].pc = "done"

(***************************************************************************)
(* C10: for a known role whose allowed_actions holds neither the action    *)
(* nor "*", and whose denied_actions does not hold it, the policy engine   *)
(* denies with a reason that lists exactly the allowed actions of the      *)
(* role, and dispatch returns allowed = false with that reason unchanged.  *)
(* C10_AlwaysPolicyReason states it for every such dispatch call,          *)
(* C10_PolicyReasonUnlessRateLimited for the calls that pass the rate      *)
(* check.                                                                  *)
(***************************************************************************)
NotListed(c) ==
    /\ calls[c].pc = "done"
    /\ calls[c].role \in KnownRoles
    /\ ~Listed(calls[c].action, AllowedList(calls[c].role))
    /\ ~Listed("*", AllowedList(calls[c].role))
    /\ ~Listed(calls[c].action, DeniedList(calls[c].role))

NotPermittedReason(c) ==
    Reason("not_permitted", calls[c].action, calls[c].role,
           IF AllowedList(calls[c].role) = <<>> THEN <<"none">>
           ELSE AllowedList(calls[c].role))

ReturnsPolicyReason(c) ==
    /\ calls[c].policy.reason = NotPermittedReason(c)
    /\ ~calls[c].policy.allowed
    /\ ~calls[c].result.allowed
    /\ calls[c].result.reason = NotPermittedReason(c)
    /\ calls[c].result.response = Response("policy_denied", 0, NotPermittedReason(c))

MappedOrDefault(user) ==
    IF user \in DOMAIN RoleMap THEN RoleMap[user] ELSE "readonly"

IdentityFailed(c) ==
    /\ calls[c].pc = "done"
    /\ calls[c].result.response.kind = "identity_failure"

\* a user identifier as the data model has it: a string (str)
IsUserIdentifier(user) == user # UnhashableId

\* C11: every dispatch call issued with a user identifier (a string, the
\* empty one included) has resolved: no identity failure, the role is the
\* mapped role or else the default role, and the role map is what it was
\* at start
C11_ResolveTotal ==
    /\ role_map = RoleMap
    /\ \A c \in CallIds :
           (Started(c) /\ IsUserIdentifier(calls[c].user)) =>
               /\ ~IdentityFailed(c)
               /\ calls[c].role = MappedOrDefault(calls[c].user)

C11_Witness ==
    /\ Started(1)
    /\ calls[1].user = ""
    /\ calls[1].role = DEFAULT_ROLE
    /\ calls[1].pc = "done"
    /\ calls[1].result.role = "readonly"

(***************************************************************************)
(* C12: dispatch never lets a fault escape to its caller: whatever way     *)
(* the identity resolver, the rate limiter, the policy evaluation or the   *)
(* gateway call fails, the call ends by returning a SkillResponse.         *)
(***************************************************************************)
\* the call left dispatch by an exception
Escaped(c) == calls[c].pc = "raised"

\* C12: no dispatch call ends by raising
C12_NoFaultEscapes == \A c \in CallIds : ~Escaped(c)

(***************************************************************************)
(* C13: when an approved dispatch call's gateway call fails because the    *)
(* gateway is unreachable, times out or answers with an error status,      *)
(* dispatch returns allowed = true with the reason 'OpenClaw execution     *)
(* error' and an error-flavoured response, never allowed = false.          *)
(***************************************************************************)
ErrorStatus(status) == status >= 400

\* the gateway call of the approved call failed
GatewayFailed(c) ==
    /\ calls[c].gw = 1
    /\ \/ calls[c].gateway.kind \in {"connection_failure", "timeout"}
       \/ /\ calls[c].gateway.kind = "response"
          /\ ErrorStatus(calls[c].gateway.status)

ReportsExecutionError(c) ==
    /\ calls[c].pc = "done"
    /\ calls[c].result.allowed
    /\ calls[c].result.reason = EXECUTION_ERROR
    /\ calls[c].result.response.kind = "gateway_error"
    /\ calls[c].result.role = calls[c].role

\* C13: every approved call whose gateway call failed has returned
\* allowed = true, reason 'OpenClaw execution error' and the error response
C13_GatewayFailureIsAllowed ==
    \A c \in CallIds : GatewayFailed(c) => ReportsExecutionError(c)

(***************************************************************************)
(* C14: if the identity resolver raises during dispatch, the call returns  *)
(* allowed = false with role 'unknown' and the generic cannot-verify-      *)
(* identity response, and neither the rate limiter, nor the policy         *)
(* engine, nor the gateway is consulted for that call.                     *)
(***************************************************************************)
\* the rate limiter has a window for the user: check was called for it
LimiterConsulted(user) == user \in DOMAIN windows

\* C14: a call whose resolve raised is done with the identity-failure
\* denial (allowed = false, role 'unknown', the action and user echoed)
\* and has no rate window, no policy decision, no record, no message and
\* no gateway call
C14_IdentityFailureDenied ==
    \A c \in CallIds :
        (Started(c) /\ ResolveRaises(calls[c].user)) =>
            /\ calls[c].pc = "done"
            /\ ~calls[c].result.allowed
            /\ calls[c].result.role = "unknown"
            /\ calls[c].result.response = Response("identity_failure", 0, NoReason)
            /\ calls[c].result.action = calls[c].action
            /\ calls[c].result.slack_user_id = calls[c].user
            /\ ~LimiterConsulted(calls[c].user)
            /\ ~Decided(c)
            /\ calls[c].recs = 0
            /\ calls[c].gw = 0
            /\ calls[c].msg = NoMessage

\* a call with an identity failure next to a call that was forwarded
C14_Witness ==
    \E c, b \in CallIds :
        /\ Started(c)
        /\ ResolveRaises(calls[c].user)
        /\ calls[c].result.role = "unknown"
        /\ calls[b].gw = 1

(***************************************************************************)
(* C15: when the rate-limit check of a dispatch call fails, the call       *)
(* returns a denial whose response cites the configured limit of the       *)
(* resolved role (10 when the role configures none) and the policy engine  *)
(* is not evaluated for that call; the stages of the pipeline run in the   *)
(* order identity, rate check, policy, record, gateway.                    *)
(***************************************************************************)
\* the limit the role table configures for the role, 10 when it has none
ConfiguredLimit(role) ==
    IF role \in DOMAIN RolesConfig /\ "rate_limit" \in DOMAIN RolesConfig[role]
    THEN RolesConfig[role]["rate_limit"]
    ELSE 10

\* the rate check of the call found the window of the user full
RateCheckFailed(c) ==
    /\ RateChecked(c)
    /\ Cardinality(InWindow(calls[c].seen, calls[c].checkedAt))
           >= ConfiguredLimit(calls[c].role)

C15_DenialCitesLimit ==
    \A c \in CallIds :
        RateCheckFailed(c) =>
            /\ calls[c].pc = "done"
            /\ ~calls[c].result.allowed
            /\ calls[c].result.reason = RATE_LIMIT_EXCEEDED
            /\ calls[c].result.response =
                   Response("rate_limit", ConfiguredLimit(calls[c].role), NoReason)
            /\ calls[c].result.role = calls[c].role
            /\ ~Decided(c)
            /\ calls[c].recs = 0
            /\ calls[c].gw = 0

\* the positions a dispatch call goes through, in order
StageOrder ==
    { <<"idle", "ratecheck">>, <<"idle", "done">>,
      <<"ratecheck", "policy">>, <<"ratecheck", "done">>,
      <<"policy", "record">>, <<"policy", "done">>,
      <<"record", "send">>,
      <<"send", "done">>, <<"send", "raised">>,
      <<"done", "idle">>, <<"raised", "idle">> }

\* every step of a call moves it to the next stage, and only the stage it
\* names does its work: the policy decision is taken by the policy stage,
\* the record by the record stage, the gateway call by the send stage
C15_StagesInOrder ==
    \A c \in CallIds :
        calls'[c] # calls[c] =>
            /\ <<calls[c].pc, calls'[c].pc>> \in StageOrder
            /\ calls'[c].pc # "idle" =>
                   /\ calls'[c].policy # calls[c].policy => calls[c].pc = "policy"
                   /\ calls'[c].recs # calls[c].recs => calls[c].pc = "record"
                   /\ calls'[c].gw # calls[c].gw => calls[c].pc = "send"
                   /\ calls'[c].role # calls[c].role => calls[c].pc = "idle"

Denied(c) == calls[c].pc = "done" /\ ~calls[c].result.allowed

NonEmptyReason(c) == calls[c].result.reason.kind # ""

NonEmptyResponse(c) == calls[c].result.response.kind # ""

\* the short-circuit paths of dispatch, by the response they return
DenialPaths == {"identity_failure", "rate_limit", "policy_denied"}

\* the reasons of the policy engine
PolicyDenials ==
    {"unknown_role", "explicitly_denied", "not_permitted"} \cup HardDenialKinds

Success2xx(gateway) ==
    gateway.kind = "response" /\ gateway.status \in 200..299

\* the RuntimeError that tells the failure of the gateway
FailureDetail(gateway) ==
    CASE gateway.kind = "connection_failure" ->
             Raises("RuntimeError", "Cannot reach", 0)
      [] gateway.kind = "timeout" -> Raises("RuntimeError", "timed out", 0)
      [] OTHER -> Raises("RuntimeError", "returned HTTP", gateway.status)

\* C17: a send_message call has returned a value only when the gateway
\* answered 2xx, and has raised the RuntimeError of the failure otherwise
C17_RuntimeErrorUnless2xx ==
    \A c \in CallIds :
        calls[c].gw = 1 =>
            IF Success2xx(calls[c].gateway)
            THEN calls[c].sent.kind = "return"
            ELSE calls[c].sent = FailureDetail(calls[c].gateway)

(***************************************************************************)
(* C18: for a successful gateway response body, send_message returns the   *)
(* value of the first field among reply, text, message, in that order,     *)
(* and the stringified whole body when there is none.                      *)
(* C18_FirstPresentWins takes the first field that is present, whatever    *)
(* its value; C18_FirstNonEmptyWins the first field whose value is not     *)
(* empty.                                                                  *)
(***************************************************************************)
FieldOrder == <<"reply", "text", "message">>

PresentFields(data) == {i \in 1..Len(FieldOrder) : FieldOrder[i] \in DOMAIN data}

NonEmptyFields(data) == {i \in PresentFields(data) : data[FieldOrder[i]] # ""}

\* the call's send_message returned the value of the first of the
\* candidate fields, or str(data) when there is no candidate
ReturnedFirstOf(c, candidates) ==
    LET data == calls[c].gateway.data
        value == calls[c].sent.value
    IN  /\ calls[c].sent.kind = "return"
        /\ IF candidates = {}
           THEN value.of = "str(data)" /\ value.data = data
           ELSE LET first == CHOOSE i \in candidates :
                                 \A j \in candidates : i <= j
                IN  /\ value.of = FieldOrder[first]
                    /\ value.text = data[FieldOrder[first]]

\* C18 as stated: the first field that is present wins, whatever its value
C18_FirstPresentWins ==
    \A c \in CallIds :
        (calls[c].gw = 1 /\ Success2xx(calls[c].gateway)) =>
            ReturnedFirstOf(c, PresentFields(calls[c].gateway.data))

\* C18 amended: the first field whose value is not empty wins; the whole
\* body is stringified when no field has a non-empty value
C18_FirstNonEmptyWins ==
    \A c \in CallIds :
        (calls[c].gw = 1 /\ Success2xx(calls[c].gateway)) =>
            ReturnedFirstOf(c, NonEmptyFields(calls[c].gateway.data))

\* an empty reply next to a text: the text is returned
C18_Witness ==
    \E c \in CallIds :
        /\ calls[c].gw = 1
        /\ Success2xx(calls[c].gateway)
        /\ DOMAIN calls[c].gateway.data = {"reply", "text"}
        /\ calls[c].gateway.data["reply"] = ""
        /\ calls[c].sent.value.of = "text"
        /\ calls[c].sent.value.text = "t"

(***************************************************************************)
(* C19: the instruction forwarded to the gateway is the template of the    *)
(* action filled from the sanitized parameters when the action is in the   *)
(* template table and every field of the template is present; otherwise    *)
(* it is the generic rendering 'Action: X' with every parameter pair       *)
(* (just 'Action: X' without parameters); building it never fails.         *)
(***************************************************************************)
\* the call has recorded the request, which is when the message is built
MessageBuilt(c) == calls[c].recs = 1

TemplateApplies(action, params) ==
    /\ action \in DOMAIN Templates
    /\ \A f \in Templates[action] : f \in DOMAIN params

\* C19: the message of a call is the template with exactly the template's
\* fields taken from the sanitized parameters, or else the generic
\* rendering with all sanitized parameters
C19_TemplateOrGeneric ==
    \A c \in CallIds :
        MessageBuilt(c) =>
            LET sanitized == calls[c].policy.sanitized_params
                msg == calls[c].msg
            IN  /\ calls[c].pc \in {"send", "done", "raised"}
                /\ msg.action = calls[c].action
                /\ IF TemplateApplies(calls[c].action, sanitized)
                   THEN /\ msg.kind = "template"
                        /\ DOMAIN msg.fields = Templates[calls[c].action]
                        /\ \A f \in DOMAIN msg.fields : msg.fields[f] = sanitized[f]
                   ELSE /\ msg.kind = "generic"
                        /\ DOMAIN msg.fields = DOMAIN sanitized
                        /\ \A k \in DOMAIN sanitized : msg.fields[k] = sanitized[k]

\* a known action with a missing template field: the generic rendering,
\* with the clamped timeout
C19_Witness ==
    \E c \in CallIds :
        /\ MessageBuilt(c)
        /\ calls[c].action = "run_code"
        /\ "code" \notin DOMAIN calls[c].params
        /\ calls[c].msg.kind = "generic"
        /\ "timeout_seconds" \in DOMAIN calls[c].msg.fields
        /\ calls[c].msg.fields["timeout_seconds"] = 3
        /\ calls[c].params["timeout_seconds"] = 4

(***************************************************************************)
(* C20: PolicyEngine.check and dispatch never modify the parameter bag of  *)
(* the caller: after any call, allowed or denied, clamped or not, params   *)
(* is what it was before the call; clamping shows only in the returned     *)
(* sanitized parameters.                                                   *)
(***************************************************************************)
\* the timeout of the call is above the maximum of its constraint set
ClampApplies(c) ==
    LET ac == ActionConstraints(calls[c].role, calls[c].action)
    IN  /\ "max_timeout_seconds" \in DOMAIN ac
        /\ "timeout_seconds" \in DOMAIN calls[c].params
        /\ calls[c].params["timeout_seconds"] > ac["max_timeout_seconds"]

\* no step of a call changes the params it was called with; the step that
\* takes an allowing policy decision leaves the clamped timeout in the
\* sanitized parameters and the requested one in params
C20_ParamsKept ==
    \A c \in CallIds :
        Started(c) =>
            /\ calls'[c].params = calls[c].params
            /\ ( /\ calls[c].pc = "policy"
                 /\ calls'[c].pc = "record"
                 /\ ClampApplies(c) )
               => /\ calls'[c].policy.sanitized_params # calls'[c].params
                  /\ calls'[c].policy.sanitized_params["timeout_seconds"]
                         < calls'[c].params["timeout_seconds"]

\* C20: in every step of check and dispatch the caller's params stays
\* equal to what was passed in; a clamp shows only in sanitized_params
C20_ParamsNeverModified == [][C20_ParamsKept]_vars

\* a returned call that was clamped and still has the requested timeout
C20_Witness ==
    \E c \in CallIds :
        /\ calls[c].pc = "done"
        /\ calls[c].result.allowed
        /\ ClampApplies(c)
        /\ calls[c].params["timeout_seconds"] = 4
        /\ calls[c].policy.sanitized_params["timeout_seconds"] = 3

(***************************************************************************)
(* C21: RateLimiter.check(user, role, roles) returns true if and only if   *)
(* the number of the user's recorded timestamps that are not older than    *)
(* the 60-unit window at the time of the call is strictly less than the    *)
(* role's rate_limit, the limit being 10 when the role is absent from the  *)
(* role table or has no rate_limit; check itself never adds a timestamp.   *)
(***************************************************************************)
Checked == last.op = "check"

\* the window is what is left of an earlier one after dropping from the front
IsSuffix(window, earlier) ==
    /\ Len(window) <= Len(earlier)
    /\ window = SubSeq(earlier, Len(earlier) - Len(window) + 1, Len(earlier))

C21_CheckIffBelowLimit ==
    Checked =>
        /\ last.ok <=> (Cardinality(InWindow(last.before, last.at))
                            < ConfiguredLimit(last.role))
        /\ IsSuffix(GetWindow(windows, last.user), last.before)

\* a check under the default limit is refused at the last moment of a window
\* that holds ten requests
C21_Witness ==
    /\ Checked
    /\ last.role = "ghost"
    /\ last.at = WINDOW_SECONDS
    /\ Len(last.before) = DEFAULT_RATE_LIMIT
    /\ ~last.ok

(***************************************************************************)
(* C27: after any sequence of record, check, current_count and reset calls *)
(* under a monotonic clock, each user's window holds its timestamps in     *)
(* non-decreasing order, and immediately after a check or current_count on *)
(* a user that user's window contains no timestamp older than 60 time      *)
(* units.                                                                  *)
(***************************************************************************)
NonDecreasing(window) ==
    \A i, j \in 1..Len(window) : i <= j => window[i] <= window[j]

Pruned == last.op \in {"check", "current_count"}

C27_OrderedAndPruned ==
    /\ \A u \in DOMAIN windows : NonDecreasing(windows[u])
    /\ Pruned =>
           \A i \in 1..Len(GetWindow(windows, last.user)) :
               GetWindow(windows, last.user)[i] >= last.at - WINDOW_SECONDS

\* a check or current_count has dropped several expired timestamps at once
\* and kept a fresh one
C27_Witness ==
    /\ Pruned
    /\ GetWindow(windows, last.user) # <<>>
    /\ Len(last.before) >= Len(GetWindow(windows, last.user)) + 2

(***************************************************************************)
(* C28: current_count(u) returns exactly the number of u's recorded        *)
(* timestamps within the trailing 60-unit window, and calling it never     *)
(* changes admission: at the time of the call and at any later time the    *)
(* result of a check, for any user and role, is the same on the windows    *)
(* it leaves as on the windows it found, and so is what a later check or   *)
(* current_count would keep of every window.                               *)
(***************************************************************************)
Counted == last.op = "current_count"

LaterTimes == now..MaxClock

SameAdmission(ws1, ws2) ==
    \A u \in LimiterUsers, t \in LaterTimes :
        /\ Prune(GetWindow(ws1, u), t) = Prune(GetWindow(ws2, u), t)
        /\ \A r \in LimiterRoles :
               RateCheck(ws1, u, r, t).ok = RateCheck(ws2, u, r, t).ok

C28_CountExact ==
    Counted => last.count = Cardinality(InWindow(last.before, last.at))

C28_CountKeepsAdmission ==
    /\ []C28_CountExact
    /\ [][(\E u \in LimiterUsers : Count(u)) => SameAdmission(windows', windows)]_vars

\* current_count has dropped expired timestamps and reports the fresh ones
C28_Witness ==
    /\ Counted
    /\ last.count >= 1
    /\ Len(last.before) > last.count

(***************************************************************************)
(* C22: whichever source the identity map is loaded from (the              *)
(* SLACK_ROLE_MAP environment mapping or the identity_map.yaml file), its  *)
(* reserved 'default' key designates the role returned for unknown users   *)
(* and is not itself treated as a user identifier; the environment         *)
(* mapping, when set and valid, is used instead of the file, the file is   *)
(* used when the environment mapping is unset or invalid, and an empty map *)
(* is used when neither is available.                                      *)
(***************************************************************************)
FromEnvironment == loaded.environ.kind = "json"

FromFile == ~FromEnvironment /\ loaded.identity_file.kind = "yaml"

\* the mapping of the source that the priority order selects
SourceMap ==
    IF FromEnvironment THEN loaded.environ.map
    ELSE IF FromFile THEN loaded.identity_file.map
    ELSE EmptyBag

\* the call went through resolve of the router that the middleware built
Resolved(c) ==
    /\ router_instance # NoRouter
    /\ Started(c)
    /\ ~ResolveRaises(calls[c].user)

\* the role of a user under a mapping whose 'default' key is reserved
RoleUnderReservedKey(map, user) ==
    IF user \in (DOMAIN map) \ {"default"}
    THEN map[user]
    ELSE Get(map, "default", DEFAULT_ROLE)

\* as stated: the key is reserved in either source
C22_DefaultKeyReserved ==
    \A c \in CallIds :
        Resolved(c) => calls[c].role = RoleUnderReservedKey(SourceMap, calls[c].user)

\* as the code has it: the key is reserved in the file only; in the
\* environment mapping it is the entry of a user called "default", and
\* unknown users get "readonly"
C22_DefaultKeyOfFileOnly ==
    \A c \in CallIds :
        Resolved(c) =>
            calls[c].role =
                IF FromEnvironment
                THEN Get(loaded.environ.map, calls[c].user, DEFAULT_ROLE)
                ELSE IF FromFile
                THEN RoleUnderReservedKey(loaded.identity_file.map, calls[c].user)
                ELSE DEFAULT_ROLE

\* an unknown user was resolved by a router whose map came from an
\* environment mapping that has a 'default' entry, while the file was there
C22_Witness ==
    /\ Resolved(1)
    /\ FromEnvironment
    /\ "default" \in DOMAIN loaded.environ.map
    /\ loaded.identity_file.kind = "yaml"
    /\ calls[1].user \notin DOMAIN loaded.environ.map
    /\ calls[1].role = DEFAULT_ROLE

(***************************************************************************)
(* C23: between two calls of reset_skill_router, every call of             *)
(* get_skill_router returns the same SkillRouter instance, built at most   *)
(* once (so all requests share one rate-limiter state); after              *)
(* reset_skill_router the next get_skill_router call builds a new instance *)
(* with empty rate windows; a failed build leaves no cached instance.      *)
(***************************************************************************)
\* the routers that get_skill_router returned since the last reset
Routers == handed \ {Raised}

C23_OneInstance ==
    /\ Cardinality(Routers) <= 1
    /\ Routers \subseteq {router_instance}
    /\ router_instance \in {NoRouter} \cup Routers

\* a get_skill_router call that returned or raised
Got == handed' # handed /\ handed' # {}

C23_BuildSteps ==
    /\ Got /\ router_instance = NoRouter /\ router_instance' # NoRouter =>
           /\ router_instance' \notin 0..built
           /\ windows' = EmptyBag
    /\ Got /\ router_instance # NoRouter =>
           UNCHANGED <<router_instance, built, windows, role_map, default_role>>
    /\ Raised \in handed' \ handed => router_instance' = NoRouter
    /\ handed' = {} => router_instance' = NoRouter

C23_SingletonUntilReset ==
    /\ []C23_OneInstance
    /\ [][C23_BuildSteps]_vars

\* after a reset, a failed build and then a second router that has served
\* a request
C23_Witness ==
    /\ router_instance = 2
    /\ handed = {Raised, 2}
    /\ \E u \in DOMAIN windows : windows[u] # <<>>

(***************************************************************************)
(* C24: in the Kafka consume loop, a message whose handle_event raised is  *)
(* never committed: no commit made later in the same run (for a later      *)
(* message of the same partition that succeeded) covers the failed         *)
(* message's offset, so the failed message is redelivered on the next run. *)
(***************************************************************************)
\* the committed offset of the partition is past the message, so that the
\* next run does not fetch it
Covered(message) == committed[message[1]] > message[2]

C24_FailedNeverCovered == \A message \in failed : ~Covered(message)

(***************************************************************************)
(* C25: one run of the Kafka consumer hands at most MAX_EVENTS_PER_RUN     *)
(* messages to the agent (counting both messages that succeed and messages *)
(* that fail) and then leaves the consume loop.                            *)
(***************************************************************************)
C25_AtMostMaxHandled == handled <= MAX_EVENTS_PER_RUN

(***************************************************************************)
(* C26: RateLimiter serializes operations per user key with the per-user   *)
(* lock: every check and every record on a user's window runs while the    *)
(* caller holds the lock of _get_lock for that user, so that no operation  *)
(* of another caller on the same user's window occurs between one caller's *)
(* check and its record.                                                   *)
(***************************************************************************)
NoHolder == 0

\* the call holds the lock that _get_lock returns for the user
HoldsLock(c, user) == Get(locks, user, NoHolder) = c

\* the call has passed its rate check and has not recorded yet
BetweenCheckAndRecord(c) == calls[c].pc \in {"policy", "record"}

TouchesWindow(c) == StepRateCheck(c) \/ StepRecord(c)

C26_SerializedPerUser ==
    [][\A c \in CallIds :
           TouchesWindow(c) =>
               /\ HoldsLock(c, calls[c].user)
               /\ \A b \in CallIds \ {c} :
                      BetweenCheckAndRecord(b) => calls[b].user # calls[c].user]_vars

(***************************************************************************)
(* C29: reset(u) restores u's full quota: immediately after reset(u)       *)
(* current_count(u) is 0 and the next N policy-allowed dispatches of u     *)
(* (N = the role's limit, N >= 1) are admitted; reset of a user that has   *)
(* no window is a no-op that does not fail.  The dispatches and the reset   *)
(* are made one after the other.                                           *)
(***************************************************************************)
WasReset == last.op = "reset"

\* a dispatch of the user that was reset, issued after the reset
AfterReset(c) ==
    /\ WasReset
    /\ Started(c)
    /\ c \notin last.started
    /\ calls[c].user = last.user

\* the position of the call among the dispatches issued after the reset
Ordinal(c) == Cardinality({b \in CallIds : AfterReset(b) /\ b <= c})

WithinQuota(c) ==
    /\ ConfiguredLimit(calls[c].role) >= 1
    /\ Ordinal(c) <= ConfiguredLimit(calls[c].role)

C29_NextDispatchesAdmitted ==
    \A c \in CallIds :
        AfterReset(c) /\ PolicyAllows(c) /\ WithinQuota(c) =>
            /\ ~RateDenied(c)
            /\ Returned(c) => Admitted(c)

ResetClears ==
    \A u \in AdminUsers :
        Reset(u) =>
            /\ CurrentCount(windows', u, now).count = 0
            /\ u \notin DOMAIN windows => windows' = windows

C29_ResetRestoresQuota ==
    /\ []C29_NextDispatchesAdmitted
    /\ [][ResetClears]_vars

\* the operator's window was full when it was reset, and the two dispatches
\* issued since have both gone to the gateway
C29_Witness ==
    /\ WasReset
    /\ last.user = "U_OP"
    /\ Len(last.before) = ConfiguredLimit("operator")
    /\ last.at = 0
    /\ Cardinality({c \in CallIds : AfterReset(c) /\ Admitted(c)}) = 2

(***************************************************************************)
(* C30: rate windows are per user and independent: no check, record,       *)
(* current_count, reset or dispatch for user A changes the window of a     *)
(* different user B or the outcome of any later check for B, even when A   *)
(* and B have the same role.                                               *)
(***************************************************************************)
\* the step is a limiter call or a dispatch step for the user
ActsOn(u) ==
    \/ last' # last /\ last'.user = u
    \/ \E c \in CallIds : calls'[c] # calls[c] /\ calls'[c].user = u

\* now and the clock values the next step of the clock can give
NextTimes == {t \in {now} \cup {now + d : d \in TickSteps} : t <= MaxClock}

Untouched(u) ==
    /\ u \in DOMAIN windows' <=> u \in DOMAIN windows
    /\ GetWindow(windows', u) = GetWindow(windows, u)
    /\ \A r \in LimiterRoles, t \in NextTimes :
           RateCheck(windows', u, r, t).ok = RateCheck(windows, u, r, t).ok

C30_WindowsIndependent ==
    [][\A u \in AdminUsers : ~ActsOn(u) => Untouched(u)]_vars

\* a user with requests on record was reset while another user of the same
\* role keeps requests on record
C30_Witness ==
    /\ WasReset
    /\ last.before # <<>>
    /\ GetWindow(windows, last.user) = <<>>
    /\ \E u \in AdminUsers \ {last.user} :
           /\ Resolve(u).role = Resolve(last.user).role
           /\ GetWindow(windows, u) # <<>>

(***************************************************************************)
(* C31: PolicyEngine.check evaluates in the strict order unknown-role,     *)
(* explicit deny, allow-list, then constraints in the order clamp timeout, *)
(* language whitelist, content size, blocked path, blocked url, and stops  *)
(* at the first failure: when a request fails several checks, the returned *)
(* reason is the one of the earliest failing check in this order, and a    *)
(* request that violates a hard constraint is denied even if its timeout   *)
(* was clamped.                                                            *)
(***************************************************************************)
CheckOrder ==
    <<"unknown_role", "explicitly_denied", "not_permitted",
      "language_not_permitted", "content_too_large", "path_not_permitted",
      "url_blocked_pattern">>

\* the check of that name, taken on its own, rejects the request
Fails(kind, role, action, p) ==
    LET ac == ActionConstraints(role, action)
    IN  CASE kind = "unknown_role" -> role \notin KnownRoles
          [] kind = "explicitly_denied" -> Listed(action, DeniedList(role))
          [] kind = "not_permitted" ->
                 /\ role \in KnownRoles
                 /\ ~Listed(action, AllowedList(role))
                 /\ ~Listed("*", AllowedList(role))
          [] kind = "language_not_permitted" ->
                 LanguageOutside(ac, p) /\ p["language"] # ""
          [] kind = "content_too_large" -> ContentTooBig(ac, p)
          [] kind = "path_not_permitted" -> PathBlocked(ac, p)
          [] kind = "url_blocked_pattern" -> UrlBlocked(ac, p)

FailedChecks(c) ==
    {i \in 1..Len(CheckOrder) :
         Fails(CheckOrder[i], calls[c].role, calls[c].action, calls[c].params)}

\* the smallest of a non-empty set of positions
Earliest(positions) == CHOOSE i \in positions : \A j \in positions : i <= j

C31_EarliestFailureReported ==
    \A c \in CallIds :
        Decided(c) =>
            IF FailedChecks(c) = {}
            THEN calls[c].policy.allowed
            ELSE /\ ~calls[c].policy.allowed
                 /\ calls[c].policy.reason.kind = CheckOrder[Earliest(FailedChecks(c))]

\* a request whose timeout is clamped and that fails all four hard
\* constraints is denied for its language
C31_Witness ==
    \E c \in CallIds :
        /\ Decided(c)
        /\ ClampApplies(c)
        /\ FailedChecks(c) = {4, 5, 6, 7}
        /\ ~calls[c].policy.allowed
        /\ calls[c].policy.reason.kind = "language_not_permitted"


(***************************************************************************)
(* C32: an approved dispatch whose gateway call failed still consumes      *)
(* quota: its timestamp is recorded before the gateway call and stays in   *)
(* the window when the call fails, so that a dispatch of a user that       *)
(* starts after as many approved dispatches of that user as the limit of   *)
(* its role, all inside its window, is denied by the rate limit whether    *)
(* or not their gateway calls succeeded.                                   *)
(***************************************************************************)
\* the earlier dispatches of the user of call c that were approved (they
\* reached the gateway call, whatever its outcome) not longer before the
\* rate check of c than the window lasts
ApprovedBefore(c) ==
    {b \in CallIds :
        /\ b < c
        /\ calls[b].user = calls[c].user
        /\ calls[b].gw = 1
        /\ calls[b].checkedAt >= calls[c].checkedAt - WINDOW_SECONDS}

Smaller(a, b) == IF a <= b THEN a ELSE b

\* the timeout an allowed decision on the call must carry
ExpectedTimeout(c) ==
    LET ac == ActionConstraints(calls[c].role, calls[c].action)
        requested == calls[c].params["timeout_seconds"]
    IN  IF "max_timeout_seconds" \in DOMAIN ac
        THEN Smaller(requested, ac["max_timeout_seconds"])
        ELSE requested

HasText(parts) ==
    \E i \in DOMAIN parts : \E j \in DOMAIN parts[i] : parts[i][j] \notin Whitespace

ServedMethods == {"message/send", "message/stream", "tasks/send", "tasks/get"}

\* the request is one the server turns down
Unacceptable(q) ==
    \/ q.auth # "ok"
    \/ q.body # "json"
    \/ q.envelope # "valid"
    \/ q.jsonrpc # "2.0"
    \/ q.method \in {"message/send", "message/stream", "tasks/send"} /\ ~HasText(q.parts)
    \/ q.method \notin ServedMethods

Received(r) == requests[r].pc # "idle"

\* the asyncio tasks that have not finished
Unfinished == {i \in DOMAIN invocations : invocations[i].state = "running"}

(***************************************************************************)
(* C34: a request the server turns down (authentication failure, invalid   *)
(* JSON, invalid envelope or version, message/send, message/stream or      *)
(* tasks/send without text, unknown method) starts no invocation and       *)
(* leaves _tasks as it was.                                                *)
(***************************************************************************)
C34_RejectedTouchesNothing ==
    \A r \in RequestIds :
        (Received(r) /\ Unacceptable(requests[r].q)) =>
            /\ requests[r].pc = "replied"
            /\ requests[r].reply.kind = "error"
            /\ requests[r].started = 0
            /\ requests[r].wrote = 0
            /\ requests[r].task = NoTask

\* tasks/send without text for an id whose task is registered and running
C34_Witness ==
    \E r \in RequestIds :
        /\ Received(r)
        /\ requests[r].q.method = "tasks/send"
        /\ requests[r].q.auth = "ok" /\ requests[r].q.body = "json"
        /\ requests[r].q.parts # <<>> /\ ~HasText(requests[r].q.parts)
        /\ requests[r].reply = A2aError(-32602, 200)
        /\ requests[r].q.id \in DOMAIN tasks
        /\ tasks[requests[r].q.id] \in Unfinished

(***************************************************************************)
(* C35: tasks/send with a task id whose registered task has not finished   *)
(* starts no second invocation and keeps the registered task; a new        *)
(* invocation replaces the entry only when none is registered or the       *)
(* registered one is done; a task id never has two unfinished invocations. *)
(***************************************************************************)
C35_OneUnfinishedPerTaskId ==
    /\ \A i \in Unfinished :
           /\ invocations[i].id \in DOMAIN tasks
           /\ tasks[invocations[i].id] = i
    /\ \A i, j \in Unfinished : invocations[i].id = invocations[j].id => i = j
    /\ \A r \in RequestIds :
           (/\ requests[r].pc = "replied"
            /\ requests[r].q.method = "tasks/send"
            /\ ~Unacceptable(requests[r].q)) =>
               /\ requests[r].task_id \in DOMAIN tasks
               /\ IF requests[r].started = 0
                  THEN /\ tasks[requests[r].task_id] \in Unfinished
                       /\ requests[r].wrote = 0
                  ELSE /\ requests[r].started = 1
                       /\ tasks[requests[r].task_id] = requests[r].task
                       /\ requests[r].task = Len(invocations)

\* a second tasks/send for a running task, after a first invocation of the
\* id has finished and been replaced
C35_Witness ==
    \E r \in RequestIds :
        /\ requests[r].pc = "replied"
        /\ requests[r].q.method = "tasks/send"
        /\ ~Unacceptable(requests[r].q)
        /\ requests[r].started = 0
        /\ tasks[requests[r].task_id] = 2
        /\ invocations[1].id = requests[r].task_id
        /\ invocations[1].state = "raised"

(***************************************************************************)
(* C36: tasks/get answers 'unknown' for an id that was never submitted,    *)
(* 'working' while the registered task is unfinished, then 'completed'     *)
(* with the output or the error -32001; until the id is submitted again    *)
(* it keeps giving the final answer it gave, and never 'working' again.    *)
(***************************************************************************)
Polls == {r \in RequestIds :
             /\ requests[r].pc = "replied"
             /\ requests[r].q.method = "tasks/get"
             /\ ~Unacceptable(requests[r].q)}

C36_PollFollowsTask ==
    \A r \in Polls :
        LET t == requests[r].task_id
            reply == requests[r].reply
        IN  /\ IF t \notin DOMAIN tasks
               THEN reply = TaskReply("unknown", <<>>)
               ELSE CASE invocations[tasks[t]].state = "running" ->
                             reply = TaskReply("working", <<>>)
                      [] invocations[tasks[t]].state = "returned" ->
                             reply = TaskReply("completed", invocations[tasks[t]].output)
                      [] OTHER -> reply = A2aError(-32001, 200)
            /\ t \in DOMAIN tasks => \E i \in DOMAIN invocations : invocations[i].id = t
            /\ (t \in DOMAIN polled /\ polled[t].task = tasks[t]) =>
                   reply = polled[t].reply

\* the final answer is given a second time
C36_Witness ==
    \E r \in Polls :
        /\ requests[r].task_id \in DOMAIN polled
        /\ polled[requests[r].task_id].task = tasks[requests[r].task_id]
        /\ requests[r].reply = polled[requests[r].task_id].reply
        /\ requests[r].reply.state = "completed"
        /\ requests[r].reply.text # <<>>

(***************************************************************************)
(* C37: message/stream sends exactly one 'working' status-update with      *)
(* final=false first, then exactly one status-update with final=true,      *)
(* 'completed' with the output of the invocation or 'failed' when it       *)
(* raised or the wait timed out, and nothing after the final event.        *)
(***************************************************************************)
Streams == {r \in RequestIds :
               requests[r].q.method = "message/stream" /\ ~Unacceptable(requests[r].q)}

C37_WorkingThenOneFinal ==
    \A r \in Streams :
        LET events == requests[r].events
            task == invocations[requests[r].task]
        IN  /\ requests[r].pc \in {"stream", "stream_wait", "closed"}
            /\ requests[r].pc = "stream" => events = <<>>
            /\ requests[r].pc = "stream_wait" =>
                   events = <<StatusUpdate("working", FALSE, <<>>)>>
            /\ requests[r].pc = "closed" =>
                   /\ Len(events) = 2
                   /\ events[1] = StatusUpdate("working", FALSE, <<>>)
                   /\ \/ /\ events[2] = StatusUpdate("completed", TRUE, task.output)
                         /\ task.state = "returned"
                      \/ /\ events[2] = StatusUpdate("failed", TRUE, <<>>)
                         /\ task.state = "raised" \/ requests[r].timed_out

\* a stream that ends with 'failed' because the wait timed out, the
\* invocation still running
C37_Witness ==
    \E r \in Streams :
        /\ requests[r].pc = "closed"
        /\ requests[r].events[2].state = "failed"
        /\ requests[r].timed_out
        /\ requests[r].task \in Unfinished

(***************************************************************************)
(* C38: once start() has booted the agent and subscribed, the memory of    *)
(* the agent is flushed before the consumer is closed, whichever way the   *)
(* consume loop was left: event limit, idle poll, end of a partition,      *)
(* shutdown signal or an exception raised in the loop.                     *)
(***************************************************************************)
ExitPaths == {"limit", "idle", "eof", "signal", "exception"}

\* the positions of a step in the steps done by the finally block
StepsOf(step) == {i \in DOMAIN shutdown : shutdown[i] = step}

C38_FlushBeforeClose ==
    /\ stage = "loop" => exit_path = "" /\ shutdown = <<>>
    /\ stage # "loop" => exit_path \in ExitPaths
    /\ \A i \in StepsOf("close") : \E j \in StepsOf("flush") : j < i
    /\ Exited /\ shutdown # <<"flush_raised">> =>
           Cardinality(StepsOf("flush")) = 1 /\ Cardinality(StepsOf("close")) = 1

\* the run left the loop by an exception and has closed the consumer
C38_Witness ==
    /\ stage = "raised"
    /\ exit_path = "exception"
    /\ StepsOf("close") = {2}
    /\ StepsOf("flush") = {1}
=============================================================================
